---------------------------- MODULE Spec2Model ----------------------------
(***************************************************************************)
(* A model of the coastal threat system's backend: the location resolver,  *)
(* the source adapters with their simulated fallbacks, the aggregation     *)
(* orchestrator (UnifiedDataService), the alert service and the HTTP       *)
(* routes that drive them.                                                 *)
(*                                                                         *)
(* Conventions.  A Python str that the code inspects character by          *)
(* character is a sequence of one-character strings; a str the code only   *)
(* passes around is a TLA+ string.  A float is an integer scaled by        *)
(* Scale (four decimals).  None is the record Null.                        *)
(***************************************************************************)
EXTENDS Integers, Sequences, FiniteSets, TLC

VARIABLES
  op,           \* the operation whose result is pending, "idle" when none is
  arg,          \* its arguments
  ret,          \* what it returned (a route: the HTTP response)
  weather_rows, \* the committed rows of the weather table
  tide_rows,    \* the committed rows of the tide table
  deactivated,  \* the alert ids for which deactivate_alert has returned True
  resolved,     \* the latest delivered call of get_location_info: input, result
  generated     \* a delivered call of generate_alerts_from_data returned an alert

vars == <<op, arg, ret, weather_rows, tide_rows, deactivated, resolved, generated>>

\* What the services that hold no state of their own leave alone
stored == <<weather_rows, tide_rows, deactivated, resolved, generated>>

Null == [null |-> TRUE]

\* Four decimals: the precision of the catalog's coordinates and of round(x, 4).
Scale == 10000

\* A raised exception, as the value of the expression that raised it
Raise(kind) == [raised |-> kind]
IsRaise(x) == "raised" \in DOMAIN x

\* Python truthiness of an Optional[Dict]: None and {} are falsy
Truthy(x) == x # Null /\ DOMAIN x # {}

\* try: r / except Exception: handler
OnRaise(r, handler) == IF IsRaise(r) THEN handler ELSE r

\* try: x = r; if not x: x = handler / except Exception: x = handler
OnRaiseOrFalsy(r, handler) == IF IsRaise(r) \/ ~Truthy(r) THEN handler ELSE r

\* try: return r / except Exception: return None
NoneOnRaise(r) == IF IsRaise(r) THEN Null ELSE r

---------------------------------------------------------------------------
(* Characters and strings *)

UpperChars == <<"A","B","C","D","E","F","G","H","I","J","K","L","M",
                "N","O","P","Q","R","S","T","U","V","W","X","Y","Z","U+00C3">>
LowerChars == <<"a","b","c","d","e","f","g","h","i","j","k","l","m",
                "n","o","p","q","r","s","t","u","v","w","x","y","z","U+00E3">>
DigitChars == <<"0","1","2","3","4","5","6","7","8","9">>

IndexIn(c, cs) == CHOOSE i \in DOMAIN cs : cs[i] = c
IsIn(c, cs) == \E i \in DOMAIN cs : cs[i] = c

\* str.lower() / str.upper() on one character
LowerChar(c) == IF IsIn(c, UpperChars) THEN LowerChars[IndexIn(c, UpperChars)] ELSE c
UpperChar(c) == IF IsIn(c, LowerChars) THEN UpperChars[IndexIn(c, LowerChars)] ELSE c
IsCased(c) == IsIn(c, UpperChars) \/ IsIn(c, LowerChars)
IsDigit(c) == IsIn(c, DigitChars)
DigitVal(c) == IndexIn(c, DigitChars) - 1

\* str.lower()
StrLower(s) == [i \in 1..Len(s) |-> LowerChar(s[i])]

\* str.title(): a cased character is upper-cased after an uncased one (or at
\* the start) and lower-cased after a cased one.
StrTitle(s) ==
  [i \in 1..Len(s) |->
     IF i = 1 \/ ~IsCased(s[i-1]) THEN UpperChar(s[i]) ELSE LowerChar(s[i])]

\* str.replace(a, b) for one-character a and b
ReplaceChar(s, a, b) == [i \in 1..Len(s) |-> IF s[i] = a THEN b ELSE s[i]]

\* str.replace(a, "") for a one-character a
DeleteChar(s, a) == SelectSeq(s, LAMBDA c : c # a)

\* needle in hay
Contains(hay, needle) ==
  \E i \in 0..(Len(hay) - Len(needle)) : SubSeq(hay, i + 1, i + Len(needle)) = needle

\* The position of the first a in s, 0 when there is none.
FirstIndex(s, a) ==
  IF \E i \in 1..Len(s) : s[i] = a
  THEN CHOOSE i \in 1..Len(s) : s[i] = a /\ \A j \in 1..(i-1) : s[j] # a
  ELSE 0

\* str.split(a) for a one-character a
RECURSIVE Split(_, _)
Split(s, a) ==
  LET i == FirstIndex(s, a)
  IN IF i = 0 THEN <<s>>
     ELSE <<SubSeq(s, 1, i - 1)>> \o Split(SubSeq(s, i + 1, Len(s)), a)

\* str.strip() (the inputs hold no whitespace but the space)
RECURSIVE LStrip(_)
LStrip(s) == IF Len(s) > 0 /\ s[1] = " " THEN LStrip(Tail(s)) ELSE s
RECURSIVE RStrip(_)
RStrip(s) == IF Len(s) > 0 /\ s[Len(s)] = " " THEN RStrip(SubSeq(s, 1, Len(s) - 1)) ELSE s
Strip(s) == RStrip(LStrip(s))

Abs(x) == IF x < 0 THEN -x ELSE x

\* Integer division truncating toward zero, as int(x / y) does for y > 0.
TruncDiv(x, y) == IF x >= 0 THEN x \div y ELSE -((-x) \div y)

\* str(n) of an int n >= 0
RECURSIVE NatStr(_)
NatStr(n) == IF n < 10 THEN <<DigitChars[n + 1]>>
             ELSE NatStr(n \div 10) \o <<DigitChars[(n % 10) + 1]>>

\* str(n) of an int
IntStr(n) == IF n < 0 THEN <<"-">> \o NatStr(-n) ELSE NatStr(n)

\* f"{n:+d}"
SignedStr(n) == IF n < 0 THEN <<"-">> \o NatStr(-n) ELSE <<"+">> \o NatStr(n)

\* The four fraction digits of a scaled float
Frac4(v) ==
  LET f == Abs(v) % Scale
  IN <<DigitChars[(f \div 1000) + 1], DigitChars[((f \div 100) % 10) + 1],
       DigitChars[((f \div 10) % 10) + 1], DigitChars[(f % 10) + 1]>>

RECURSIVE DropZeros(_)
DropZeros(ds) == IF Len(ds) > 1 /\ ds[Len(ds)] = "0"
                 THEN DropZeros(SubSeq(ds, 1, Len(ds) - 1)) ELSE ds

\* f"{x:.4f}" of a scaled float
Fixed4(v) ==
  (IF v < 0 THEN <<"-">> ELSE <<>>) \o NatStr(Abs(v) \div Scale) \o <<".">> \o Frac4(v)

\* str(x) of a scaled float: the shortest repr, with at least one fraction digit
FloatStr(v) ==
  (IF v < 0 THEN <<"-">> ELSE <<>>) \o NatStr(Abs(v) \div Scale) \o <<".">>
    \o DropZeros(Frac4(v))

\* float(s): whether s, stripped, is [sign] digits [. digits] with a digit in it
IsFloatText(s) ==
  LET t == Strip(s)
      u == IF Len(t) > 0 /\ t[1] \in {"+", "-"} THEN Tail(t) ELSE t
      dot == FirstIndex(u, ".")
      ip == IF dot = 0 THEN u ELSE SubSeq(u, 1, dot - 1)
      fp == IF dot = 0 THEN <<>> ELSE SubSeq(u, dot + 1, Len(u))
  IN /\ Len(ip) + Len(fp) > 0
     /\ \A i \in 1..Len(ip) : IsDigit(ip[i])
     /\ \A i \in 1..Len(fp) : IsDigit(fp[i])

RECURSIVE DigitsVal(_)
DigitsVal(ds) == IF ds = <<>> THEN 0
                 ELSE DigitsVal(SubSeq(ds, 1, Len(ds) - 1)) * 10 + DigitVal(ds[Len(ds)])

\* float(s) as a scaled float, for s with IsFloatText(s)
FloatVal(s) ==
  LET t == Strip(s)
      neg == Len(t) > 0 /\ t[1] = "-"
      u == IF Len(t) > 0 /\ t[1] \in {"+", "-"} THEN Tail(t) ELSE t
      dot == FirstIndex(u, ".")
      ip == IF dot = 0 THEN u ELSE SubSeq(u, 1, dot - 1)
      fp == IF dot = 0 THEN <<>> ELSE SubSeq(u, dot + 1, Len(u))
      f4 == SubSeq(fp \o <<"0","0","0","0">>, 1, 4)
      m == DigitsVal(ip) * Scale + DigitsVal(f4)
  IN IF neg THEN -m ELSE m

---------------------------------------------------------------------------
\* BEGIN TABLES (generated from the source by tools/gen_tables.py)
coastal_cities ==
  << [key |-> <<"m","i","a","m","i">>, name |-> <<"M","i","a","m","i",","," ","U","S","A">>, lat |-> 257617, lon |-> -801918, country |-> "USA", timezone |-> <<"U","T","C","-","5">>],
     [key |-> <<"s","a","n","_","f","r","a","n","c","i","s","c","o">>, name |-> <<"S","a","n"," ","F","r","a","n","c","i","s","c","o",","," ","U","S","A">>, lat |-> 377749, lon |-> -1224194, country |-> "USA", timezone |-> <<"U","T","C","-","8">>],
     [key |-> <<"s","e","a","t","t","l","e">>, name |-> <<"S","e","a","t","t","l","e",","," ","U","S","A">>, lat |-> 476062, lon |-> -1223321, country |-> "USA", timezone |-> <<"U","T","C","-","8">>],
     [key |-> <<"b","o","s","t","o","n">>, name |-> <<"B","o","s","t","o","n",","," ","U","S","A">>, lat |-> 423601, lon |-> -710589, country |-> "USA", timezone |-> <<"U","T","C","-","5">>],
     [key |-> <<"n","e","w","_","y","o","r","k">>, name |-> <<"N","e","w"," ","Y","o","r","k",","," ","U","S","A">>, lat |-> 407128, lon |-> -740060, country |-> "USA", timezone |-> <<"U","T","C","-","5">>],
     [key |-> <<"c","h","a","r","l","e","s","t","o","n">>, name |-> <<"C","h","a","r","l","e","s","t","o","n",","," ","U","S","A">>, lat |-> 327765, lon |-> -799311, country |-> "USA", timezone |-> <<"U","T","C","-","5">>],
     [key |-> <<"g","a","l","v","e","s","t","o","n">>, name |-> <<"G","a","l","v","e","s","t","o","n",","," ","U","S","A">>, lat |-> 293013, lon |-> -947977, country |-> "USA", timezone |-> <<"U","T","C","-","6">>],
     [key |-> <<"l","o","s","_","a","n","g","e","l","e","s">>, name |-> <<"L","o","s"," ","A","n","g","e","l","e","s",","," ","U","S","A">>, lat |-> 340522, lon |-> -1182437, country |-> "USA", timezone |-> <<"U","T","C","-","8">>],
     [key |-> <<"p","o","r","t","l","a","n","d","_","o","r">>, name |-> <<"P","o","r","t","l","a","n","d",","," ","U","S","A">>, lat |-> 455152, lon |-> -1226784, country |-> "USA", timezone |-> <<"U","T","C","-","8">>],
     [key |-> <<"a","n","c","h","o","r","a","g","e">>, name |-> <<"A","n","c","h","o","r","a","g","e",","," ","U","S","A">>, lat |-> 612181, lon |-> -1499003, country |-> "USA", timezone |-> <<"U","T","C","-","9">>],
     [key |-> <<"h","o","n","o","l","u","l","u">>, name |-> <<"H","o","n","o","l","u","l","u",","," ","U","S","A">>, lat |-> 213099, lon |-> -1578581, country |-> "USA", timezone |-> <<"U","T","C","-","1","0">>],
     [key |-> <<"p","a","n","a","m","a","_","c","i","t","y">>, name |-> <<"P","a","n","a","m","a"," ","C","i","t","y",","," ","U","S","A">>, lat |-> 301595, lon |-> -856598, country |-> "USA", timezone |-> <<"U","T","C","-","6">>],
     [key |-> <<"p","e","n","s","a","c","o","l","a">>, name |-> <<"P","e","n","s","a","c","o","l","a",","," ","U","S","A">>, lat |-> 304213, lon |-> -872169, country |-> "USA", timezone |-> <<"U","T","C","-","6">>],
     [key |-> <<"m","o","b","i","l","e">>, name |-> <<"M","o","b","i","l","e",","," ","U","S","A">>, lat |-> 306954, lon |-> -880399, country |-> "USA", timezone |-> <<"U","T","C","-","6">>],
     [key |-> <<"n","e","w","_","o","r","l","e","a","n","s">>, name |-> <<"N","e","w"," ","O","r","l","e","a","n","s",","," ","U","S","A">>, lat |-> 299511, lon |-> -900715, country |-> "USA", timezone |-> <<"U","T","C","-","6">>],
     [key |-> <<"s","a","n","t","a","_","b","a","r","b","a","r","a">>, name |-> <<"S","a","n","t","a"," ","B","a","r","b","a","r","a",","," ","U","S","A">>, lat |-> 344208, lon |-> -1196982, country |-> "USA", timezone |-> <<"U","T","C","-","8">>],
     [key |-> <<"m","o","n","t","e","r","e","y">>, name |-> <<"M","o","n","t","e","r","e","y",","," ","U","S","A">>, lat |-> 366002, lon |-> -1218947, country |-> "USA", timezone |-> <<"U","T","C","-","8">>],
     [key |-> <<"c","r","e","s","c","e","n","t","_","c","i","t","y">>, name |-> <<"C","r","e","s","c","e","n","t"," ","C","i","t","y",","," ","U","S","A">>, lat |-> 417558, lon |-> -1242026, country |-> "USA", timezone |-> <<"U","T","C","-","8">>],
     [key |-> <<"g","a","r","i","b","a","l","d","i">>, name |-> <<"G","a","r","i","b","a","l","d","i",","," ","U","S","A">>, lat |-> 455598, lon |-> -1239110, country |-> "USA", timezone |-> <<"U","T","C","-","8">>],
     [key |-> <<"v","a","n","c","o","u","v","e","r">>, name |-> <<"V","a","n","c","o","u","v","e","r",","," ","C","a","n","a","d","a">>, lat |-> 492827, lon |-> -1231207, country |-> "Canada", timezone |-> <<"U","T","C","-","8">>],
     [key |-> <<"t","o","r","o","n","t","o">>, name |-> <<"T","o","r","o","n","t","o",","," ","C","a","n","a","d","a">>, lat |-> 436532, lon |-> -793832, country |-> "Canada", timezone |-> <<"U","T","C","-","5">>],
     [key |-> <<"m","o","n","t","r","e","a","l">>, name |-> <<"M","o","n","t","r","e","a","l",","," ","C","a","n","a","d","a">>, lat |-> 455017, lon |-> -735673, country |-> "Canada", timezone |-> <<"U","T","C","-","5">>],
     [key |-> <<"h","a","l","i","f","a","x">>, name |-> <<"H","a","l","i","f","a","x",","," ","C","a","n","a","d","a">>, lat |-> 446488, lon |-> -635752, country |-> "Canada", timezone |-> <<"U","T","C","-","4">>],
     [key |-> <<"b","a","r","c","e","l","o","n","a">>, name |-> <<"B","a","r","c","e","l","o","n","a",","," ","S","p","a","i","n">>, lat |-> 413851, lon |-> 21734, country |-> "Spain", timezone |-> <<"U","T","C","+","1">>],
     [key |-> <<"a","m","s","t","e","r","d","a","m">>, name |-> <<"A","m","s","t","e","r","d","a","m",","," ","N","e","t","h","e","r","l","a","n","d","s">>, lat |-> 523676, lon |-> 49041, country |-> "Netherlands", timezone |-> <<"U","T","C","+","1">>],
     [key |-> <<"o","s","l","o">>, name |-> <<"O","s","l","o",","," ","N","o","r","w","a","y">>, lat |-> 599139, lon |-> 107522, country |-> "Norway", timezone |-> <<"U","T","C","+","1">>],
     [key |-> <<"s","t","o","c","k","h","o","l","m">>, name |-> <<"S","t","o","c","k","h","o","l","m",","," ","S","w","e","d","e","n">>, lat |-> 593293, lon |-> 180686, country |-> "Sweden", timezone |-> <<"U","T","C","+","1">>],
     [key |-> <<"h","e","l","s","i","n","k","i">>, name |-> <<"H","e","l","s","i","n","k","i",","," ","F","i","n","l","a","n","d">>, lat |-> 601699, lon |-> 249384, country |-> "Finland", timezone |-> <<"U","T","C","+","2">>],
     [key |-> <<"c","o","p","e","n","h","a","g","e","n">>, name |-> <<"C","o","p","e","n","h","a","g","e","n",","," ","D","e","n","m","a","r","k">>, lat |-> 556761, lon |-> 125683, country |-> "Denmark", timezone |-> <<"U","T","C","+","1">>],
     [key |-> <<"d","u","b","l","i","n">>, name |-> <<"D","u","b","l","i","n",","," ","I","r","e","l","a","n","d">>, lat |-> 533498, lon |-> -62603, country |-> "Ireland", timezone |-> <<"U","T","C","+","0">>],
     [key |-> <<"a","t","h","e","n","s">>, name |-> <<"A","t","h","e","n","s",","," ","G","r","e","e","c","e">>, lat |-> 379838, lon |-> 237275, country |-> "Greece", timezone |-> <<"U","T","C","+","2">>],
     [key |-> <<"v","e","n","i","c","e">>, name |-> <<"V","e","n","i","c","e",","," ","I","t","a","l","y">>, lat |-> 454408, lon |-> 123155, country |-> "Italy", timezone |-> <<"U","T","C","+","1">>],
     [key |-> <<"m","a","r","s","e","i","l","l","e">>, name |-> <<"M","a","r","s","e","i","l","l","e",","," ","F","r","a","n","c","e">>, lat |-> 432965, lon |-> 53698, country |-> "France", timezone |-> <<"U","T","C","+","1">>],
     [key |-> <<"r","o","t","t","e","r","d","a","m">>, name |-> <<"R","o","t","t","e","r","d","a","m",","," ","N","e","t","h","e","r","l","a","n","d","s">>, lat |-> 519225, lon |-> 44792, country |-> "Netherlands", timezone |-> <<"U","T","C","+","1">>],
     [key |-> <<"m","u","m","b","a","i">>, name |-> <<"M","u","m","b","a","i",","," ","I","n","d","i","a">>, lat |-> 190760, lon |-> 728777, country |-> "India", timezone |-> <<"U","T","C","+","5",":","3","0">>],
     [key |-> <<"k","a","r","a","c","h","i">>, name |-> <<"K","a","r","a","c","h","i",","," ","P","a","k","i","s","t","a","n">>, lat |-> 248607, lon |-> 670011, country |-> "Pakistan", timezone |-> <<"U","T","C","+","5">>],
     [key |-> <<"t","o","k","y","o">>, name |-> <<"T","o","k","y","o",","," ","J","a","p","a","n">>, lat |-> 356762, lon |-> 1396503, country |-> "Japan", timezone |-> <<"U","T","C","+","9">>],
     [key |-> <<"s","i","n","g","a","p","o","r","e">>, name |-> <<"S","i","n","g","a","p","o","r","e">>, lat |-> 13521, lon |-> 1038198, country |-> "Singapore", timezone |-> <<"U","T","C","+","8">>],
     [key |-> <<"s","y","d","n","e","y">>, name |-> <<"S","y","d","n","e","y",","," ","A","u","s","t","r","a","l","i","a">>, lat |-> -338688, lon |-> 1512093, country |-> "Australia", timezone |-> <<"U","T","C","+","1","0">>],
     [key |-> <<"s","h","a","n","g","h","a","i">>, name |-> <<"S","h","a","n","g","h","a","i",","," ","C","h","i","n","a">>, lat |-> 312304, lon |-> 1214737, country |-> "China", timezone |-> <<"U","T","C","+","8">>],
     [key |-> <<"h","o","n","g","_","k","o","n","g">>, name |-> <<"H","o","n","g"," ","K","o","n","g">>, lat |-> 223193, lon |-> 1141694, country |-> "Hong Kong", timezone |-> <<"U","T","C","+","8">>],
     [key |-> <<"b","a","n","g","k","o","k">>, name |-> <<"B","a","n","g","k","o","k",","," ","T","h","a","i","l","a","n","d">>, lat |-> 137563, lon |-> 1005018, country |-> "Thailand", timezone |-> <<"U","T","C","+","7">>],
     [key |-> <<"m","a","n","i","l","a">>, name |-> <<"M","a","n","i","l","a",","," ","P","h","i","l","i","p","p","i","n","e","s">>, lat |-> 145995, lon |-> 1209842, country |-> "Philippines", timezone |-> <<"U","T","C","+","8">>],
     [key |-> <<"j","a","k","a","r","t","a">>, name |-> <<"J","a","k","a","r","t","a",","," ","I","n","d","o","n","e","s","i","a">>, lat |-> -62088, lon |-> 1068456, country |-> "Indonesia", timezone |-> <<"U","T","C","+","7">>],
     [key |-> <<"k","o","l","k","a","t","a">>, name |-> <<"K","o","l","k","a","t","a",","," ","I","n","d","i","a">>, lat |-> 225726, lon |-> 883639, country |-> "India", timezone |-> <<"U","T","C","+","5",":","3","0">>],
     [key |-> <<"c","h","e","n","n","a","i">>, name |-> <<"C","h","e","n","n","a","i",","," ","I","n","d","i","a">>, lat |-> 130827, lon |-> 802707, country |-> "India", timezone |-> <<"U","T","C","+","5",":","3","0">>],
     [key |-> <<"k","o","c","h","i">>, name |-> <<"K","o","c","h","i",","," ","I","n","d","i","a">>, lat |-> 99312, lon |-> 762673, country |-> "India", timezone |-> <<"U","T","C","+","5",":","3","0">>],
     [key |-> <<"v","i","s","a","k","h","a","p","a","t","n","a","m">>, name |-> <<"V","i","s","a","k","h","a","p","a","t","n","a","m",","," ","I","n","d","i","a">>, lat |-> 176868, lon |-> 832185, country |-> "India", timezone |-> <<"U","T","C","+","5",":","3","0">>],
     [key |-> <<"c","a","p","e","_","t","o","w","n">>, name |-> <<"C","a","p","e"," ","T","o","w","n",","," ","S","o","u","t","h"," ","A","f","r","i","c","a">>, lat |-> -339249, lon |-> 184241, country |-> "South Africa", timezone |-> <<"U","T","C","+","2">>],
     [key |-> <<"c","a","i","r","o">>, name |-> <<"C","a","i","r","o",","," ","E","g","y","p","t">>, lat |-> 300444, lon |-> 312357, country |-> "Egypt", timezone |-> <<"U","T","C","+","2">>],
     [key |-> <<"c","a","s","a","b","l","a","n","c","a">>, name |-> <<"C","a","s","a","b","l","a","n","c","a",","," ","M","o","r","o","c","c","o">>, lat |-> 335731, lon |-> -75898, country |-> "Morocco", timezone |-> <<"U","T","C","+","0">>],
     [key |-> <<"l","a","g","o","s">>, name |-> <<"L","a","g","o","s",","," ","N","i","g","e","r","i","a">>, lat |-> 65244, lon |-> 33792, country |-> "Nigeria", timezone |-> <<"U","T","C","+","1">>],
     [key |-> <<"d","u","b","a","i">>, name |-> <<"D","u","b","a","i",","," ","U","A","E">>, lat |-> 252048, lon |-> 552708, country |-> "UAE", timezone |-> <<"U","T","C","+","4">>],
     [key |-> <<"a","b","u","j","a">>, name |-> <<"A","b","u","j","a",","," ","N","i","g","e","r","i","a">>, lat |-> 90820, lon |-> 73986, country |-> "Nigeria", timezone |-> <<"U","T","C","+","1">>],
     [key |-> <<"n","a","i","r","o","b","i">>, name |-> <<"N","a","i","r","o","b","i",","," ","K","e","n","y","a">>, lat |-> -12921, lon |-> 368219, country |-> "Kenya", timezone |-> <<"U","T","C","+","3">>],
     [key |-> <<"d","a","r","_","e","s","_","s","a","l","a","a","m">>, name |-> <<"D","a","r"," ","e","s"," ","S","a","l","a","a","m",","," ","T","a","n","z","a","n","i","a">>, lat |-> -68230, lon |-> 392695, country |-> "Tanzania", timezone |-> <<"U","T","C","+","3">>],
     [key |-> <<"a","u","c","k","l","a","n","d">>, name |-> <<"A","u","c","k","l","a","n","d",","," ","N","e","w"," ","Z","e","a","l","a","n","d">>, lat |-> -368485, lon |-> 1747633, country |-> "New Zealand", timezone |-> <<"U","T","C","+","1","2">>],
     [key |-> <<"w","e","l","l","i","n","g","t","o","n">>, name |-> <<"W","e","l","l","i","n","g","t","o","n",","," ","N","e","w"," ","Z","e","a","l","a","n","d">>, lat |-> -412866, lon |-> 1747756, country |-> "New Zealand", timezone |-> <<"U","T","C","+","1","2">>],
     [key |-> <<"f","i","j","i">>, name |-> <<"S","u","v","a",","," ","F","i","j","i">>, lat |-> -181416, lon |-> 1784419, country |-> "Fiji", timezone |-> <<"U","T","C","+","1","2">>],
     [key |-> <<"p","a","p","u","a","_","n","e","w","_","g","u","i","n","e","a">>, name |-> <<"P","o","r","t"," ","M","o","r","e","s","b","y",","," ","P","N","G">>, lat |-> -94438, lon |-> 1471803, country |-> "PNG", timezone |-> <<"U","T","C","+","1","0">>],
     [key |-> <<"r","i","o">>, name |-> <<"R","i","o"," ","d","e"," ","J","a","n","e","i","r","o",","," ","B","r","a","z","i","l">>, lat |-> -229068, lon |-> -431729, country |-> "Brazil", timezone |-> <<"U","T","C","-","3">>],
     [key |-> <<"s","a","o","_","p","a","u","l","o">>, name |-> <<"S","U+00C3","U+00A3","o"," ","P","a","u","l","o",","," ","B","r","a","z","i","l">>, lat |-> -235505, lon |-> -466333, country |-> "Brazil", timezone |-> <<"U","T","C","-","3">>],
     [key |-> <<"b","u","e","n","o","s","_","a","i","r","e","s">>, name |-> <<"B","u","e","n","o","s"," ","A","i","r","e","s",","," ","A","r","g","e","n","t","i","n","a">>, lat |-> -346118, lon |-> -583960, country |-> "Argentina", timezone |-> <<"U","T","C","-","3">>],
     [key |-> <<"l","i","m","a">>, name |-> <<"L","i","m","a",","," ","P","e","r","u">>, lat |-> -120464, lon |-> -770428, country |-> "Peru", timezone |-> <<"U","T","C","-","5">>],
     [key |-> <<"s","a","n","t","i","a","g","o">>, name |-> <<"S","a","n","t","i","a","g","o",","," ","C","h","i","l","e">>, lat |-> -334489, lon |-> -706693, country |-> "Chile", timezone |-> <<"U","T","C","-","3">>] >>

station_mapping ==
  << [key |-> <<"m","i","a","m","i">>, id |-> "8724580"],
     [key |-> <<"s","a","n","_","f","r","a","n","c","i","s","c","o">>, id |-> "9410230"],
     [key |-> <<"s","e","a","t","t","l","e">>, id |-> "9447130"],
     [key |-> <<"b","o","s","t","o","n">>, id |-> "8443970"],
     [key |-> <<"n","e","w","_","y","o","r","k">>, id |-> "8518750"],
     [key |-> <<"c","h","a","r","l","e","s","t","o","n">>, id |-> "8665530"],
     [key |-> <<"g","a","l","v","e","s","t","o","n">>, id |-> "8771450"],
     [key |-> <<"l","o","s","_","a","n","g","e","l","e","s">>, id |-> "9410660"],
     [key |-> <<"p","o","r","t","l","a","n","d","_","o","r">>, id |-> "9447130"],
     [key |-> <<"a","n","c","h","o","r","a","g","e">>, id |-> "9455920"],
     [key |-> <<"h","o","n","o","l","u","l","u">>, id |-> "1612340"],
     [key |-> <<"p","a","n","a","m","a","_","c","i","t","y">>, id |-> "8729108"],
     [key |-> <<"p","e","n","s","a","c","o","l","a">>, id |-> "8729840"],
     [key |-> <<"m","o","b","i","l","e">>, id |-> "8737048"],
     [key |-> <<"n","e","w","_","o","r","l","e","a","n","s">>, id |-> "8761927"],
     [key |-> <<"s","a","n","t","a","_","b","a","r","b","a","r","a">>, id |-> "9411340"],
     [key |-> <<"m","o","n","t","e","r","e","y">>, id |-> "9413450"],
     [key |-> <<"c","r","e","s","c","e","n","t","_","c","i","t","y">>, id |-> "9419750"],
     [key |-> <<"g","a","r","i","b","a","l","d","i">>, id |-> "9437540"] >>

DataInputs ==
  { <<"m","i","a","m","i">>,
    <<"p","o","r","t","l","a","n","d","_","o","r">>,
    <<"m","u","m","b","a","i">>,
    <<"1","9",".","5",",","-","7","0",".","2">>,
    <<"0",",","0">>,
    <<"a","t","l","a","n","t","i","s">>,
    <<>> }

OtherInputs ==
  { <<>>,
    <<"a">>,
    <<"o">>,
    <<"m","i">>,
    <<"n","e","w">>,
    <<"y","o","r","k">>,
    <<"s","a","n">>,
    <<"p","o","r","t">>,
    <<"c","i","t","y">>,
    <<"_">>,
    <<"n","e","w"," ","y","o","r","k">>,
    <<"N","e","w"," ","Y","o","r","k">>,
    <<"n","e","w","-","y","o","r","k">>,
    <<"N","E","W","_","Y","O","R","K">>,
    <<"n","e","w","y","o","r","k">>,
    <<"N","e","w","Y","o","r","k">>,
    <<"v","i","s","i","t"," ","n","e","w"," ","y","o","r","k"," ","c","i","t","y">>,
    <<"t","r","i","p","-","t","o","-","n","e","w","-","y","o","r","k">>,
    <<"M","u","m","b","a","i">>,
    <<"M","U","M","B","A","I">>,
    <<"m","u","m","b","a","i"," ","i","n","d","i","a">>,
    <<"c","a","p","e"," ","t","o","w","n">>,
    <<"h","o","n","g"," ","k","o","n","g">>,
    <<"H","o","n","g","-","K","o","n","g">>,
    <<"l","o","s"," ","a","n","g","e","l","e","s">>,
    <<"s","a","o"," ","p","a","u","l","o">>,
    <<"s","a","o","p","a","u","l","o">>,
    <<"r","i","o"," ","d","e"," ","j","a","n","e","i","r","o">>,
    <<"g","r","e","a","t","e","r"," ","t","o","k","y","o"," ","a","r","e","a">>,
    <<"s","a","n"," ","f","r","a","n","c","i","s","c","o"," ","b","a","y">>,
    <<"d","a","r"," ","e","s"," ","s","a","l","a","a","m">>,
    <<"p","o","r","t","l","a","n","d">>,
    <<"n","e","w"," ","o","r","l","e","a","n","s">>,
    <<"m","i","a","m","i",",","u","s","a">>,
    <<"r","i","o",",","b","r","a","z","i","l">>,
    <<"l","i","m","a",","," ","p","e","r","u">>,
    <<"t","o","k","y","o",",","j","a","p","a","n">>,
    <<"1",",","o","s","l","o">>,
    <<"1","9",".","5",",","-","7","0",".","2">>,
    <<"0",",","0">>,
    <<"4","5",",","9","0">>,
    <<" ","1","2",".","5"," ",","," ","7"," ">>,
    <<"-","3","3",".","8","6","8","8",",","1","5","1",".","2","0","9","3">>,
    <<"1","9",".","5",","," ","-","7","0",".","2">>,
    <<"+","1",".","5",",","2">>,
    <<"6","1",".","2","5",",","-","1","5","1",".","5">>,
    <<"-","9","0",",","1","8","0">>,
    <<"7",",","7">>,
    <<"a","b","c",",","d","e","f">>,
    <<"1",",","2",",","3">>,
    <<"1","2",",">>,
    <<",">>,
    <<"1",".","2",".","3",",","4">>,
    <<"x",",","1">>,
    <<"1",",",",","2">>,
    <<"1","2",".","5",",","n","o","r","t","h">>,
    <<"a",",","b",",","c">>,
    <<",",",">>,
    <<"N","o","t"," ","A"," ","R","e","a","l"," ","C","i","t","y"," ","1","2","3","4","5">>,
    <<"n","o","t"," ","a"," ","r","e","a","l"," ","c","i","t","y"," ","1","2","3","4","5">>,
    <<"N","O","T"," ","A"," ","R","E","A","L"," ","C","I","T","Y"," ","1","2","3","4","5">>,
    <<"a","t","l","a","n","t","i","s">>,
    <<"A","t","l","a","n","t","i","s">>,
    <<"x","y","z">>,
    <<"z","z","z">>,
    <<"q","w","e","r","t","y">>,
    <<"g","o","t","h","a","m">>,
    <<"E","l"," ","D","o","r","a","d","o">>,
    <<"s","p","r","i","n","g","f","i","e","l","d">>,
    <<"1","2","3","4","5">>,
    <<"t","i","m","b","u","k","t","u">>,
    <<"n","a","r","n","i","a">>,
    <<"w","a","k","a","n","d","a">>,
    <<"z","z"," ","t","o","p">>,
    <<"q">>,
    <<"x","-","r","a","y">>,
    <<"t","1">>,
    <<"t","2">>,
    <<"t","3">>,
    <<"t","4">>,
    <<"t","5">>,
    <<"t","6">>,
    <<"t","7">>,
    <<"t","8">>,
    <<"t","9">>,
    <<"u","1">>,
    <<"u","2">>,
    <<"u","3">>,
    <<"u","4">>,
    <<"u","5">>,
    <<"u","6">>,
    <<"u","7">>,
    <<"u","8">>,
    <<"u","9">> }

md5_hexdigest16(s) ==
  CASE s = <<"m","i","a","m","i">> -> <<15,14,14,4,3,6,1,8,13,10,8,1,7,2,4,11>>
    [] s = <<"s","a","n","_","f","r","a","n","c","i","s","c","o">> -> <<6,13,2,9,4,2,5,8,12,8,5,2,1,6,11,11>>
    [] s = <<"s","e","a","t","t","l","e">> -> <<1,2,2,15,12,12,4,2,8,9,9,5,6,6,13,2>>
    [] s = <<"b","o","s","t","o","n">> -> <<6,10,14,12,13,15,14,8,11,0,0,4,13,1,14,8>>
    [] s = <<"n","e","w","_","y","o","r","k">> -> <<13,6,3,8,11,0,7,0,5,10,15,4,11,13,10,3>>
    [] s = <<"c","h","a","r","l","e","s","t","o","n">> -> <<7,3,5,14,9,7,3,10,10,8,13,8,1,10,10,13>>
    [] s = <<"g","a","l","v","e","s","t","o","n">> -> <<5,4,15,0,5,6,0,4,10,2,10,15,15,13,5,9>>
    [] s = <<"l","o","s","_","a","n","g","e","l","e","s">> -> <<5,11,13,1,2,14,2,10,0,1,11,14,11,7,10,8>>
    [] s = <<"p","o","r","t","l","a","n","d","_","o","r">> -> <<9,14,1,10,2,4,2,8,5,4,15,6,7,7,13,12>>
    [] s = <<"a","n","c","h","o","r","a","g","e">> -> <<11,11,14,10,13,10,15,1,7,8,7,11,15,10,2,3>>
    [] s = <<"h","o","n","o","l","u","l","u">> -> <<5,10,13,5,6,0,11,10,9,15,6,6,14,13,11,8>>
    [] s = <<"p","a","n","a","m","a","_","c","i","t","y">> -> <<1,1,2,6,14,12,1,13,15,1,12,6,14,3,5,1>>
    [] s = <<"p","e","n","s","a","c","o","l","a">> -> <<9,8,3,8,10,14,15,13,1,4,9,6,10,1,9,8>>
    [] s = <<"m","o","b","i","l","e">> -> <<5,3,2,12,2,8,13,5,4,1,2,13,13,7,5,11>>
    [] s = <<"n","e","w","_","o","r","l","e","a","n","s">> -> <<9,6,15,11,4,10,0,7,12,12,9,3,1,13,14,13>>
    [] s = <<"s","a","n","t","a","_","b","a","r","b","a","r","a">> -> <<10,9,1,6,2,4,3,5,13,6,15,10,0,5,3,5>>
    [] s = <<"m","o","n","t","e","r","e","y">> -> <<11,10,9,3,14,11,9,14,9,13,4,3,10,2,4,3>>
    [] s = <<"c","r","e","s","c","e","n","t","_","c","i","t","y">> -> <<2,7,1,0,6,14,7,7,0,4,1,5,12,0,3,1>>
    [] s = <<"g","a","r","i","b","a","l","d","i">> -> <<8,1,0,0,7,0,8,13,6,11,7,13,15,10,8,12>>
    [] s = <<"v","a","n","c","o","u","v","e","r">> -> <<2,10,13,5,2,0,2,8,13,6,6,13,14,6,3,7>>
    [] s = <<"t","o","r","o","n","t","o">> -> <<7,9,12,12,10,9,7,0,1,8,15,4,8,14,8,3>>
    [] s = <<"m","o","n","t","r","e","a","l">> -> <<0,15,5,6,9,11,4,12,15,5,14,11,2,6,8,7>>
    [] s = <<"h","a","l","i","f","a","x">> -> <<12,0,13,14,0,11,0,11,4,1,2,12,7,8,13,7>>
    [] s = <<"b","a","r","c","e","l","o","n","a">> -> <<13,14,10,5,6,14,4,7,15,1,12,6,2,12,3,0>>
    [] s = <<"a","m","s","t","e","r","d","a","m">> -> <<12,2,3,14,9,3,5,5,8,14,12,3,15,6,10,3>>
    [] s = <<"o","s","l","o">> -> <<8,12,15,11,15,10,14,15,10,5,5,2,7,5,7,9>>
    [] s = <<"s","t","o","c","k","h","o","l","m">> -> <<14,13,12,13,2,5,9,14,0,10,0,3,12,7,10,11>>
    [] s = <<"h","e","l","s","i","n","k","i">> -> <<3,8,11,15,0,1,10,11,4,11,10,5,13,4,9,1>>
    [] s = <<"c","o","p","e","n","h","a","g","e","n">> -> <<1,2,15,15,15,1,11,14,2,15,1,1,5,5,12,5>>
    [] s = <<"d","u","b","l","i","n">> -> <<7,1,15,10,11,7,1,13,12,7,15,2,7,5,0,5>>
    [] s = <<"a","t","h","e","n","s">> -> <<8,15,13,14,6,10,6,5,9,2,11,11,1,6,11,8>>
    [] s = <<"v","e","n","i","c","e">> -> <<15,11,15,9,6,8,13,5,15,12,8,15,3,14,1,7>>
    [] s = <<"m","a","r","s","e","i","l","l","e">> -> <<6,10,5,11,4,13,7,14,10,14,12,14,14,4,13,11>>
    [] s = <<"r","o","t","t","e","r","d","a","m">> -> <<3,9,4,9,15,6,7,13,9,7,12,8,6,12,12,13>>
    [] s = <<"m","u","m","b","a","i">> -> <<7,0,14,13,14,6,8,8,10,4,15,15,6,15,6,9>>
    [] s = <<"k","a","r","a","c","h","i">> -> <<13,3,10,2,2,8,11,0,6,4,0,2,10,10,0,1>>
    [] s = <<"t","o","k","y","o">> -> <<14,15,0,12,12,1,0,15,15,4,6,2,10,15,3,10>>
    [] s = <<"s","i","n","g","a","p","o","r","e">> -> <<13,3,1,9,7,15,11,6,4,14,0,3,1,12,6,11>>
    [] s = <<"s","y","d","n","e","y">> -> <<10,8,1,1,3,10,9,11,4,15,6,1,11,1,7,8>>
    [] s = <<"s","h","a","n","g","h","a","i">> -> <<2,2,6,3,8,10,3,1,3,1,13,0,15,0,10,7>>
    [] s = <<"h","o","n","g","_","k","o","n","g">> -> <<6,14,2,15,12,5,4,5,8,1,3,0,11,12,10,2>>
    [] s = <<"b","a","n","g","k","o","k">> -> <<11,9,0,11,11,13,2,11,8,7,9,13,5,12,0,1>>
    [] s = <<"m","a","n","i","l","a">> -> <<1,9,8,4,3,2,14,8,0,13,9,12,15,8,15,15>>
    [] s = <<"j","a","k","a","r","t","a">> -> <<6,2,9,10,11,1,4,15,10,11,7,7,2,13,7,8>>
    [] s = <<"k","o","l","k","a","t","a">> -> <<3,1,3,12,13,3,12,7,9,10,8,15,8,5,13,4>>
    [] s = <<"c","h","e","n","n","a","i">> -> <<5,3,4,8,1,9,6,7,15,14,3,1,14,15,6,8>>
    [] s = <<"k","o","c","h","i">> -> <<5,9,9,0,14,6,13,6,10,8,11,7,3,3,14,3>>
    [] s = <<"v","i","s","a","k","h","a","p","a","t","n","a","m">> -> <<6,5,9,9,14,15,15,0,13,5,13,9,6,1,14,7>>
    [] s = <<"c","a","p","e","_","t","o","w","n">> -> <<6,4,6,6,7,15,1,11,3,6,15,0,4,7,1,0>>
    [] s = <<"c","a","i","r","o">> -> <<7,15,9,13,3,14,4,10,2,14,6,15,15,5,14,7>>
    [] s = <<"c","a","s","a","b","l","a","n","c","a">> -> <<12,13,12,12,14,14,11,14,11,13,9,14,6,10,6,13>>
    [] s = <<"l","a","g","o","s">> -> <<7,10,14,3,4,3,5,15,1,4,7,14,4,15,2,5>>
    [] s = <<"d","u","b","a","i">> -> <<3,12,4,0,13,2,8,5,14,6,11,2,15,15,6,15>>
    [] s = <<"a","b","u","j","a">> -> <<12,11,8,6,11,10,14,0,8,3,13,8,10,1,2,7>>
    [] s = <<"n","a","i","r","o","b","i">> -> <<10,15,2,10,8,1,9,0,7,1,15,15,3,11,11,5>>
    [] s = <<"d","a","r","_","e","s","_","s","a","l","a","a","m">> -> <<4,6,14,6,12,14,15,11,9,2,8,8,10,4,0,5>>
    [] s = <<"a","u","c","k","l","a","n","d">> -> <<4,6,6,5,9,2,1,7,7,5,11,10,14,1,1,2>>
    [] s = <<"w","e","l","l","i","n","g","t","o","n">> -> <<14,11,12,7,8,2,4,14,9,11,9,3,0,4,12,9>>
    [] s = <<"f","i","j","i">> -> <<6,7,14,15,4,15,4,4,8,3,7,13,2,15,3,15>>
    [] s = <<"p","a","p","u","a","_","n","e","w","_","g","u","i","n","e","a">> -> <<3,7,3,14,15,6,14,6,3,2,4,12,2,12,3,3>>
    [] s = <<"r","i","o">> -> <<13,5,14,13,3,8,15,13,11,15,2,8,11,12,4,14>>
    [] s = <<"s","a","o","_","p","a","u","l","o">> -> <<3,15,14,2,3,7,6,7,10,12,7,3,11,11,8,7>>
    [] s = <<"b","u","e","n","o","s","_","a","i","r","e","s">> -> <<0,12,0,0,11,4,10,10,8,12,11,11,5,3,8,11>>
    [] s = <<"l","i","m","a">> -> <<6,7,4,2,9,2,3,5,7,5,5,4,6,4,7,1>>
    [] s = <<"s","a","n","t","i","a","g","o">> -> <<10,6,15,3,0,8,1,5,10,4,3,15,3,8,14,12>>
    [] s = <<>> -> <<13,4,1,13,8,12,13,9,8,15,0,0,11,2,0,4>>
    [] s = <<"a">> -> <<0,12,12,1,7,5,11,9,12,0,15,1,11,6,10,8>>
    [] s = <<"o">> -> <<13,9,5,6,7,9,7,5,2,1,3,4,10,2,13,9>>
    [] s = <<"m","i">> -> <<2,9,11,15,14,3,7,2,8,6,5,7,3,7,15,14>>
    [] s = <<"n","e","w">> -> <<2,2,10,15,6,4,5,13,1,8,5,9,12,11,5,12>>
    [] s = <<"y","o","r","k">> -> <<12,3,11,2,9,12,14,2,0,12,14,5,6,0,14,15>>
    [] s = <<"s","a","n">> -> <<9,15,5,10,4,4,10,7,3,4,10,12,9,14,4,3>>
    [] s = <<"p","o","r","t">> -> <<9,0,1,5,5,5,15,11,0,6,14,3,4,6,12,11>>
    [] s = <<"c","i","t","y">> -> <<4,14,13,5,13,2,14,10,14,13,1,10,1,15,10,13>>
    [] s = <<"_">> -> <<11,1,4,10,7,11,8,0,5,9,13,9,12,0,5,5>>
    [] s = <<"n","e","w"," ","y","o","r","k">> -> <<5,12,11,14,8,11,2,3,12,1,15,9,10,1,4,5>>
    [] s = <<"n","e","w","-","y","o","r","k">> -> <<13,4,4,13,6,11,14,1,10,3,6,8,10,13,1,8>>
    [] s = <<"n","e","w","y","o","r","k">> -> <<3,6,9,3,8,9,13,1,9,14,2,4,2,0,4,11>>
    [] s = <<"v","i","s","i","t"," ","n","e","w"," ","y","o","r","k"," ","c","i","t","y">> -> <<4,0,10,10,7,12,10,5,13,9,15,6,13,0,2,9>>
    [] s = <<"t","r","i","p","-","t","o","-","n","e","w","-","y","o","r","k">> -> <<15,3,15,14,6,6,5,9,14,6,12,11,3,2,7,8>>
    [] s = <<"m","u","m","b","a","i"," ","i","n","d","i","a">> -> <<3,10,1,8,8,9,4,4,15,12,6,12,12,10,1,6>>
    [] s = <<"c","a","p","e"," ","t","o","w","n">> -> <<7,8,10,12,9,10,0,3,12,3,12,6,0,13,6,10>>
    [] s = <<"h","o","n","g"," ","k","o","n","g">> -> <<13,11,1,14,8,12,6,4,2,12,5,2,14,4,8,14>>
    [] s = <<"h","o","n","g","-","k","o","n","g">> -> <<1,11,1,5,3,7,10,13,2,8,11,4,8,10,9,2>>
    [] s = <<"l","o","s"," ","a","n","g","e","l","e","s">> -> <<8,14,12,14,14,8,14,10,1,1,9,2,11,6,6,9>>
    [] s = <<"s","a","o"," ","p","a","u","l","o">> -> <<5,0,1,15,4,11,1,13,15,10,10,9,11,12,5,11>>
    [] s = <<"s","a","o","p","a","u","l","o">> -> <<12,6,3,10,0,5,7,10,7,13,2,11,6,9,13,8>>
    [] s = <<"r","i","o"," ","d","e"," ","j","a","n","e","i","r","o">> -> <<13,7,11,1,12,9,6,6,14,5,7,5,11,9,8,4>>
    [] s = <<"g","r","e","a","t","e","r"," ","t","o","k","y","o"," ","a","r","e","a">> -> <<10,10,11,6,2,0,6,4,7,12,15,9,5,3,2,12>>
    [] s = <<"s","a","n"," ","f","r","a","n","c","i","s","c","o"," ","b","a","y">> -> <<2,13,3,11,13,6,5,7,2,10,6,0,12,14,7,11>>
    [] s = <<"d","a","r"," ","e","s"," ","s","a","l","a","a","m">> -> <<3,7,15,5,0,13,11,0,14,10,14,7,8,7,4,7>>
    [] s = <<"p","o","r","t","l","a","n","d">> -> <<0,6,0,3,6,3,2,1,10,2,12,2,15,1,6,1>>
    [] s = <<"n","e","w"," ","o","r","l","e","a","n","s">> -> <<1,11,12,1,1,12,7,8,1,1,2,10,11,0,2,3>>
    [] s = <<"m","i","a","m","i",",","u","s","a">> -> <<0,0,11,9,6,14,1,9,5,15,15,0,7,0,3,6>>
    [] s = <<"r","i","o",",","b","r","a","z","i","l">> -> <<15,6,2,6,14,11,5,5,8,11,14,0,15,9,15,13>>
    [] s = <<"l","i","m","a",","," ","p","e","r","u">> -> <<4,5,14,3,11,9,14,4,9,8,7,9,4,7,4,5>>
    [] s = <<"t","o","k","y","o",",","j","a","p","a","n">> -> <<9,15,9,0,13,10,11,5,4,7,2,12,9,11,10,11>>
    [] s = <<"1",",","o","s","l","o">> -> <<15,2,6,5,9,3,12,14,1,14,3,15,14,5,1,14>>
    [] s = <<"1","9",".","5",",","-","7","0",".","2">> -> <<7,12,13,8,2,7,2,7,4,5,5,4,2,1,13,15>>
    [] s = <<"0",",","0">> -> <<15,12,3,12,14,2,9,14,4,12,11,14,14,5,14,7>>
    [] s = <<"4","5",",","9","0">> -> <<10,4,2,9,7,6,7,2,8,3,1,3,3,0,4,0>>
    [] s = <<" ","1","2",".","5"," ",","," ","7"," ">> -> <<0,12,14,2,9,10,0,3,2,8,8,9,0,14,3,4>>
    [] s = <<"-","3","3",".","8","6","8","8",",","1","5","1",".","2","0","9","3">> -> <<3,7,8,12,7,12,15,13,8,5,3,3,3,14,6,6>>
    [] s = <<"1","9",".","5",","," ","-","7","0",".","2">> -> <<1,5,13,5,7,11,7,13,14,3,8,2,7,1,8,6>>
    [] s = <<"+","1",".","5",",","2">> -> <<11,1,7,2,14,7,12,6,7,3,13,1,3,9,14,7>>
    [] s = <<"6","1",".","2","5",",","-","1","5","1",".","5">> -> <<3,14,9,7,10,7,5,15,8,15,6,2,0,11,11,3>>
    [] s = <<"-","9","0",",","1","8","0">> -> <<15,1,9,5,11,15,8,5,7,0,11,13,12,13,3,12>>
    [] s = <<"7",",","7">> -> <<13,5,13,7,9,10,15,1,13,12,0,6,1,8,8,4>>
    [] s = <<"a","b","c",",","d","e","f">> -> <<13,9,3,5,5,12,9,12,10,15,1,2,13,6,10,13>>
    [] s = <<"1",",","2",",","3">> -> <<5,5,11,8,4,10,9,13,3,1,7,1,8,4,15,14>>
    [] s = <<"1","2",",">> -> <<13,2,3,2,15,13,5,7,9,11,13,1,5,2,14,10>>
    [] s = <<",">> -> <<12,0,12,11,5,15,0,15,12,15,2,3,9,10,11,3>>
    [] s = <<"1",".","2",".","3",",","4">> -> <<14,4,13,15,2,5,14,0,5,9,11,13,12,10,7,8>>
    [] s = <<"x",",","1">> -> <<9,8,4,12,15,9,1,12,15,0,11,4,8,3,0,12>>
    [] s = <<"1",",",",","2">> -> <<11,6,4,6,6,13,5,12,2,5,3,11,9,7,8,12>>
    [] s = <<"1","2",".","5",",","n","o","r","t","h">> -> <<1,3,9,15,3,2,8,4,8,3,0,5,12,14,11,7>>
    [] s = <<"a",",","b",",","c">> -> <<10,4,4,12,5,6,12,8,1,7,7,14,3,2,13,3>>
    [] s = <<",",",">> -> <<2,10,8,3,12,7,8,5,9,3,13,5,15,2,1,10>>
    [] s = <<"n","o","t"," ","a"," ","r","e","a","l"," ","c","i","t","y"," ","1","2","3","4","5">> -> <<3,8,5,4,8,8,6,14,6,6,11,3,4,0,13,4>>
    [] s = <<"a","t","l","a","n","t","i","s">> -> <<12,13,4,0,0,9,10,2,4,7,10,14,8,12,4,8>>
    [] s = <<"x","y","z">> -> <<13,1,6,15,11,3,6,15,0,9,1,1,15,8,7,8>>
    [] s = <<"z","z","z">> -> <<15,3,10,11,11,8,6,11,13,3,4,12,15,4,13,5>>
    [] s = <<"q","w","e","r","t","y">> -> <<13,8,5,7,8,14,13,15,8,4,5,8,12,14,0,6>>
    [] s = <<"g","o","t","h","a","m">> -> <<10,6,12,6,4,6,10,10,6,14,0,13,2,2,10,13>>
    [] s = <<"e","l"," ","d","o","r","a","d","o">> -> <<10,10,1,13,5,10,3,7,14,14,7,12,3,8,4,14>>
    [] s = <<"s","p","r","i","n","g","f","i","e","l","d">> -> <<15,10,11,10,9,15,2,6,2,15,7,3,6,0,5,11>>
    [] s = <<"1","2","3","4","5">> -> <<8,2,7,12,12,11,0,14,14,10,8,10,7,0,6,12>>
    [] s = <<"t","i","m","b","u","k","t","u">> -> <<3,2,10,1,14,3,8,0,10,6,8,0,12,1,4,15>>
    [] s = <<"n","a","r","n","i","a">> -> <<14,11,0,5,6,2,14,8,13,7,13,11,1,1,12,0>>
    [] s = <<"w","a","k","a","n","d","a">> -> <<10,12,8,14,7,1,6,3,1,8,13,10,12,3,1,15>>
    [] s = <<"z","z"," ","t","o","p">> -> <<4,6,1,4,5,14,6,0,15,6,1,9,0,4,11,7>>
    [] s = <<"q">> -> <<7,6,9,4,15,4,10,6,6,3,1,6,14,5,3,12>>
    [] s = <<"x","-","r","a","y">> -> <<3,6,9,13,3,13,10,5,3,6,13,0,0,15,15,2>>
    [] s = <<"t","1">> -> <<8,3,15,1,5,3,5,15,9,9,10,11,0,11,15,4>>
    [] s = <<"t","2">> -> <<0,15,8,2,6,10,8,9,12,15,6,8,12,3,9,9>>
    [] s = <<"t","3">> -> <<0,11,8,8,5,4,10,13,3,8,15,0,10,6,12,6>>
    [] s = <<"t","4">> -> <<1,0,5,1,5,2,7,6,3,8,11,9,13,10,6,15>>
    [] s = <<"t","5">> -> <<13,15,2,1,8,4,15,4,11,4,6,13,14,3,13,13>>
    [] s = <<"t","6">> -> <<10,7,7,12,12,10,9,11,13,3,7,5,6,6,5,11>>
    [] s = <<"t","7">> -> <<3,6,8,5,7,0,8,15,13,5,9,4,10,6,8,6>>
    [] s = <<"t","8">> -> <<5,3,1,10,9,3,10,1,7,6,13,15,5,11,13,14>>
    [] s = <<"t","9">> -> <<8,2,15,6,9,6,1,7,5,12,0,8,15,14,0,4>>
    [] s = <<"u","1">> -> <<14,4,7,7,4,12,13,13,10,0,7,9,3,15,8,6>>
    [] s = <<"u","2">> -> <<2,7,0,12,1,11,0,8,4,15,3,15,1,4,6,14>>
    [] s = <<"u","3">> -> <<5,3,2,10,7,11,8,14,0,3,2,8,10,8,13,0>>
    [] s = <<"u","4">> -> <<7,11,8,13,6,2,15,13,2,15,0,15,5,11,2,14>>
    [] s = <<"u","5">> -> <<4,13,0,10,8,7,11,6,3,11,7,2,9,0,12,13>>
    [] s = <<"u","6">> -> <<10,6,10,0,3,10,3,2,1,13,15,12,9,10,11,8>>
    [] s = <<"u","7">> -> <<6,11,12,14,0,5,13,15,9,8,3,1,13,10,7,7>>
    [] s = <<"u","8">> -> <<0,7,7,3,9,3,8,5,2,11,14,2,0,14,3,7>>
    [] s = <<"u","9">> -> <<5,4,8,6,2,5,9,15,9,12,0,1,14,2,1,9>>
    [] s = <<"N","e","w"," ","Y","o","r","k">> -> <<8,7,8,0,9,12,9,5,4,9,4,8,13,8,10,2>>
    [] s = <<"N","E","W","_","Y","O","R","K">> -> <<13,2,15,14,2,6,5,3,3,11,10,0,10,12,2,4>>
    [] s = <<"N","e","w","Y","o","r","k">> -> <<9,14,7,12,6,8,0,12,11,4,13,2,13,15,13,5>>
    [] s = <<"M","u","m","b","a","i">> -> <<8,14,11,10,10,13,5,9,9,8,0,12,9,5,10,13>>
    [] s = <<"M","U","M","B","A","I">> -> <<14,4,0,3,15,2,10,5,15,1,1,0,6,8,12,3>>
    [] s = <<"H","o","n","g","-","K","o","n","g">> -> <<0,3,4,11,8,0,14,15,2,3,11,12,2,9,13,11>>
    [] s = <<"N","o","t"," ","A"," ","R","e","a","l"," ","C","i","t","y"," ","1","2","3","4","5">> -> <<0,12,10,0,3,7,10,12,6,15,0,14,6,12,3,7>>
    [] s = <<"N","O","T"," ","A"," ","R","E","A","L"," ","C","I","T","Y"," ","1","2","3","4","5">> -> <<8,2,14,5,15,10,5,14,10,6,15,11,7,0,2,2>>
    [] s = <<"A","t","l","a","n","t","i","s">> -> <<10,4,2,5,10,3,12,3,9,14,1,14,10,11,10,4>>
    [] s = <<"E","l"," ","D","o","r","a","d","o">> -> <<13,14,4,7,10,5,11,1,10,3,6,5,2,9,5,1>>
\* END TABLES

---------------------------------------------------------------------------
(* UnifiedDataService.get_location_info *)

CatalogKeys == {coastal_cities[i].key : i \in DOMAIN coastal_cities}

\* The location inputs of the model: every catalog key and OtherInputs.
Inputs == CatalogKeys \cup OtherInputs

\* location_input.lower().replace(" ", "_").replace("-", "_")
Normalize(s) == ReplaceChar(ReplaceChar(StrLower(s), " ", "_"), "-", "_")

\* A variant of CityInfo that hands out latitude and longitude interchanged
CityInfo_swapped(c) ==
  [name |-> c.name, lat |-> c.lon, lon |-> c.lat, country |-> c.country,
   timezone |-> c.timezone,
   coordinates |-> FloatStr(c.lat) \o <<",">> \o FloatStr(c.lon)]

\* The dict returned for a catalog entry
CityInfo(c) ==
  [name |-> c.name, lat |-> c.lat, lon |-> c.lon, country |-> c.country,
   timezone |-> c.timezone,
   coordinates |-> FloatStr(c.lat) \o <<",">> \o FloatStr(c.lon)]

\* A variant of PartialMatch without its first test, `normalized_input in
\* city_key`
PartialMatch_no_inside(location_input, city_key) ==
  LET normalized_input == Normalize(location_input)
  IN \/ Contains(normalized_input, DeleteChar(city_key, "_"))
     \/ Contains(StrLower(location_input), ReplaceChar(city_key, "_", " "))

\* The test of the partial-match loop for one catalog key
PartialMatch(location_input, city_key) ==
  LET normalized_input == Normalize(location_input)
  IN \/ Contains(city_key, normalized_input)
     \/ Contains(normalized_input, DeleteChar(city_key, "_"))
     \/ Contains(StrLower(location_input), ReplaceChar(city_key, "_", " "))

\* int(hex, 16) % m, digit by digit
RECURSIVE HexMod(_, _)
HexMod(ds, m) == IF ds = <<>> THEN 0
                 ELSE (HexMod(SubSeq(ds, 1, Len(ds) - 1), m) * 16 + ds[Len(ds)]) % m

\* A variant of generate_unknown_city_data without the two steps that pull
\* the coordinates away from the poles and the date line
generate_unknown_city_data_unclamped(city_name) ==
  LET city_hash == md5_hexdigest16(StrLower(city_name))
      lat0 == -90 + HexMod(SubSeq(city_hash, 1, 8), 180)
      lon0 == -180 + HexMod(SubSeq(city_hash, 9, 16), 360)
      timezone_offset == TruncDiv(lon0 * Scale, 15 * Scale)
  IN [name |-> StrTitle(city_name) \o <<","," ","C","o","a","s","t","a","l"," ","C","i","t","y">>,
      lat |-> lat0 * Scale, lon |-> lon0 * Scale, country |-> "Coastal Region",
      timezone |-> <<"U","T","C">> \o SignedStr(timezone_offset),
      coordinates |-> IntStr(lat0) \o <<",">> \o IntStr(lon0)]

\* A variant of generate_unknown_city_data that hashes the name as typed
generate_unknown_city_data_cased(city_name) ==
  LET city_hash == md5_hexdigest16(city_name)
      lat0 == -90 + HexMod(SubSeq(city_hash, 1, 8), 180)
      lon0 == -180 + HexMod(SubSeq(city_hash, 9, 16), 360)
      lat == IF Abs(lat0) > 60 THEN lat0 * 6 * (Scale \div 10) ELSE lat0 * Scale
      lon == IF Abs(lon0) > 150 THEN lon0 * 8 * (Scale \div 10) ELSE lon0 * Scale
      timezone_offset == TruncDiv(lon, 15 * Scale)
      latStr == IF Abs(lat0) > 60 THEN FloatStr(lat) ELSE IntStr(lat0)
      lonStr == IF Abs(lon0) > 150 THEN FloatStr(lon) ELSE IntStr(lon0)
  IN [name |-> StrTitle(city_name) \o <<","," ","C","o","a","s","t","a","l"," ","C","i","t","y">>,
      lat |-> lat, lon |-> lon, country |-> "Coastal Region",
      timezone |-> <<"U","T","C">> \o SignedStr(timezone_offset),
      coordinates |-> latStr \o <<",">> \o lonStr]

generate_unknown_city_data(city_name) ==
  LET city_hash == md5_hexdigest16(StrLower(city_name))
      lat0 == -90 + HexMod(SubSeq(city_hash, 1, 8), 180)
      lon0 == -180 + HexMod(SubSeq(city_hash, 9, 16), 360)
      lat == IF Abs(lat0) > 60 THEN lat0 * 6 * (Scale \div 10) ELSE lat0 * Scale
      lon == IF Abs(lon0) > 150 THEN lon0 * 8 * (Scale \div 10) ELSE lon0 * Scale
      timezone_offset == TruncDiv(lon, 15 * Scale)
      latStr == IF Abs(lat0) > 60 THEN FloatStr(lat) ELSE IntStr(lat0)
      lonStr == IF Abs(lon0) > 150 THEN FloatStr(lon) ELSE IntStr(lon0)
  IN [name |-> StrTitle(city_name) \o <<","," ","C","o","a","s","t","a","l"," ","C","i","t","y">>,
      lat |-> lat, lon |-> lon, country |-> "Coastal Region",
      timezone |-> <<"U","T","C">> \o SignedStr(timezone_offset),
      coordinates |-> latStr \o <<",">> \o lonStr]

\* A variant of ParsesAsPair that unpacks the first two parts of any number
ParsesAsPair_lenient(location_input) ==
  LET parts == Split(location_input, ",")
  IN Len(parts) >= 2 /\ IsFloatText(parts[1]) /\ IsFloatText(parts[2])

\* lat, lon = map(float, location_input.split(",")) succeeds
ParsesAsPair(location_input) ==
  LET parts == Split(location_input, ",")
  IN Len(parts) = 2 /\ IsFloatText(parts[1]) /\ IsFloatText(parts[2])

CustomLocation(location_input) ==
  LET parts == Split(location_input, ",")
      lat == FloatVal(parts[1])
      lon == FloatVal(parts[2])
  IN [name |-> <<"C","u","s","t","o","m"," ","L","o","c","a","t","i","o","n"," ","(">>
                 \o Fixed4(lat) \o <<","," ">> \o Fixed4(lon) \o <<")">>,
      lat |-> lat, lon |-> lon, country |-> "Custom", timezone |-> <<"U","T","C">>,
      coordinates |-> FloatStr(lat) \o <<",">> \o FloatStr(lon)]

\* The inner try block of get_location_info: unpacking the two floats raises
\* ValueError when the text is not two floats
parse_coordinates_try(location_input) ==
  IF ParsesAsPair(location_input) THEN CustomLocation(location_input)
  ELSE Raise("ValueError")

\* A variant of the coordinate branch without `except ValueError: pass`
coordinates_unhandled(location_input) ==
  IF Contains(location_input, <<",">>)
  THEN parse_coordinates_try(location_input)
  ELSE generate_unknown_city_data(location_input)

\* A variant of get_location_info with that branch and no outer handler
get_location_info_unhandled(location_input) ==
  LET normalized_input == Normalize(location_input)
      exact == {i \in DOMAIN coastal_cities : coastal_cities[i].key = normalized_input}
      partial == {i \in DOMAIN coastal_cities :
                    PartialMatch(location_input, coastal_cities[i].key)}
  IN IF exact # {}
     THEN CityInfo(coastal_cities[CHOOSE i \in exact : TRUE])
     ELSE IF partial # {}
     THEN CityInfo(coastal_cities[CHOOSE i \in partial : \A j \in partial : i <= j])
     ELSE coordinates_unhandled(location_input)

\* A variant of the coordinate branch that never parses: every input left
\* over by the catalog gets the generated location
coordinates_skipped(location_input) ==
  generate_unknown_city_data(location_input)

\* The coordinate branch with its `except ValueError: pass`, then the
\* generated location
coordinates_or_generated(location_input) ==
  IF Contains(location_input, <<",">>)
  THEN OnRaise(parse_coordinates_try(location_input),
               generate_unknown_city_data(location_input))
  ELSE generate_unknown_city_data(location_input)

\* A variant of the try block that parses or hashes an input with a comma
\* before it consults the catalog
get_location_info_try_comma_first(location_input) ==
  LET normalized_input == Normalize(location_input)
      exact == {i \in DOMAIN coastal_cities : coastal_cities[i].key = normalized_input}
      partial == {i \in DOMAIN coastal_cities :
                    PartialMatch(location_input, coastal_cities[i].key)}
  IN IF Contains(location_input, <<",">>)
     THEN coordinates_or_generated(location_input)
     ELSE IF exact # {}
     THEN CityInfo(coastal_cities[CHOOSE i \in exact : TRUE])
     ELSE IF partial # {}
     THEN CityInfo(coastal_cities[CHOOSE i \in partial : \A j \in partial : i <= j])
     ELSE coordinates_or_generated(location_input)

\* A variant of the try block whose partial-match loop keeps the last match
get_location_info_try_last(location_input) ==
  LET normalized_input == Normalize(location_input)
      exact == {i \in DOMAIN coastal_cities : coastal_cities[i].key = normalized_input}
      partial == {i \in DOMAIN coastal_cities :
                    PartialMatch(location_input, coastal_cities[i].key)}
  IN IF exact # {}
     THEN CityInfo(coastal_cities[CHOOSE i \in exact : TRUE])
     ELSE IF partial # {}
     THEN CityInfo(coastal_cities[CHOOSE i \in partial : \A j \in partial : i >= j])
     ELSE coordinates_or_generated(location_input)

\* The try block of get_location_info
get_location_info_try(location_input) ==
  LET normalized_input == Normalize(location_input)
      exact == {i \in DOMAIN coastal_cities : coastal_cities[i].key = normalized_input}
      partial == {i \in DOMAIN coastal_cities :
                    PartialMatch(location_input, coastal_cities[i].key)}
  IN IF exact # {}
     THEN CityInfo(coastal_cities[CHOOSE i \in exact : TRUE])
     ELSE IF partial # {}
     THEN CityInfo(coastal_cities[CHOOSE i \in partial : \A j \in partial : i <= j])
     ELSE coordinates_or_generated(location_input)

\* UnifiedDataService.get_location_info
get_location_info(location_input) ==
  OnRaise(get_location_info_try(location_input),
          generate_unknown_city_data(location_input))

\* get_location_info over the model's inputs, evaluated once.
LocationTable == {<<s, get_location_info(s)>> : s \in Inputs}

\* get_location_info(s), looked up in the table
LocationOf(s) == (CHOOSE p \in LocationTable : p[1] = s)[2]

---------------------------------------------------------------------------
(* The clock and the random source *)

\* Each random source is read at MaxDraw + 1 evenly spaced levels.
MaxDraw == 1
Draws == 0..MaxDraw

\* random.uniform(lo, hi) / random.randint(lo, hi) at level u
Uniform(lo, hi, u) == lo + ((hi - lo) * u) \div MaxDraw

\* random.choice(xs) at index k (taken modulo the length)
Choice(xs, k) == xs[(k % Len(xs)) + 1]
Choices == 0..3

Hours == 0..23

---------------------------------------------------------------------------
(* RealWeatherService, RealTideService, RealMarineService *)

\* What the HTTP call of a provider can end in
WeatherOutcomes == {"ok", "request_error", "missing_field", "bad_payload"}
TideOutcomes == {"ok_number", "ok_text", "no_data", "request_error"}
MarineOutcomes == {"ok", "ok_null_wave", "no_data", "request_error"}

\* The try block of get_current_weather
get_current_weather_try(loc, outcome, u) ==
  CASE outcome = "request_error" -> Raise("RequestException")
    [] outcome = "missing_field" -> Raise("KeyError")
    [] outcome = "bad_payload" -> Raise("ValueError")
    [] OTHER ->
         [temperature |-> Uniform(-10 * Scale, 45 * Scale, u),
          humidity |-> Uniform(0, 100, u),
          wind_speed |-> Uniform(0, 40 * Scale, u),
          wind_direction |-> Uniform(0, 360, u),
          pressure |-> Uniform(950, 1050, u),
          description |-> "clear sky",
          location |-> loc.coordinates,
          timestamp |-> "datetime",
          source |-> "openweathermap_real"]

\* RealWeatherService.get_current_weather: every exception becomes None
get_current_weather(loc, outcome, u) ==
  NoneOnRaise(get_current_weather_try(loc, outcome, u))

\* RealTideService.get_station_id
get_station_id(city_name) ==
  LET normalized_name == Normalize(city_name)
      direct == {i \in DOMAIN station_mapping : station_mapping[i].key = normalized_name}
      partial == {i \in DOMAIN station_mapping :
                    \/ Contains(station_mapping[i].key, normalized_name)
                    \/ Contains(normalized_name, station_mapping[i].key)}
  IN IF direct # {} THEN station_mapping[CHOOSE i \in direct : TRUE].id
     ELSE IF partial # {}
     THEN station_mapping[CHOOSE i \in partial : \A j \in partial : i <= j].id
     ELSE "None"

\* RealTideService._determine_tide_type
determine_tide_type(height) ==
  IF height > 2 * Scale THEN "high"
  ELSE IF height < Scale \div 2 THEN "low"
  ELSE IF height > (3 * Scale) \div 2 THEN "rising"
  ELSE "falling"

\* Water levels a station reports, one per tide type
WaterLevels == <<(3 * Scale) \div 10, Scale, (18 * Scale) \div 10, (25 * Scale) \div 10>>

\* The try block of get_current_water_level.  NOAA sends "v" as text: then
\* float(latest['v']) succeeds and _determine_tide_type(latest['v']) compares a
\* str with a float, which raises TypeError.
get_current_water_level_try(city_name, station_id, outcome, k) ==
  CASE outcome = "request_error" -> Raise("RequestException")
    [] outcome = "no_data" -> Null
    [] outcome = "ok_text" -> Raise("TypeError")
    [] OTHER ->
         [tide_height |-> Choice(WaterLevels, k),
          tide_type |-> determine_tide_type(Choice(WaterLevels, k)),
          location |-> city_name,
          timestamp |-> "noaa_t",
          station_id |-> station_id,
          source |-> "noaa_real"]

\* RealTideService.get_current_water_level
water_level_at(city_name, station_id, outcome, k) ==
  IF station_id = "None" THEN Null
  ELSE NoneOnRaise(get_current_water_level_try(city_name, station_id, outcome, k))

get_current_water_level(city_name, outcome, k) ==
  water_level_at(city_name, get_station_id(city_name), outcome, k)

\* Wave heights a provider reports, one per sea condition (0 also stands for
\* a payload without waveHeight, which defaults to 0)
WaveHeights == <<0, (7 * Scale) \div 10, (15 * Scale) \div 10, (25 * Scale) \div 10,
                 (35 * Scale) \div 10>>

\* A JSON null in a numeric field (None in Python)
NoneNumber == -999999

\* The try block of get_marine_weather
get_marine_weather_try(loc, outcome, u, k) ==
  CASE outcome = "request_error" -> Raise("RequestException")
    [] outcome = "no_data" -> Null
    [] OTHER ->
         [wave_height |-> IF outcome = "ok_null_wave" THEN NoneNumber
                          ELSE Choice(WaveHeights, k + u),
          wave_direction |-> Uniform(0, 360, u),
          wave_period |-> Uniform(2 * Scale, 12 * Scale, u),
          current_speed |-> Uniform(0, 2 * Scale, u),
          current_direction |-> Uniform(0, 360, u),
          water_temperature |-> Uniform(5 * Scale, 30 * Scale, u),
          visibility |-> Uniform(1, 30, u),
          air_temperature |-> Uniform(-10 * Scale, 45 * Scale, u),
          pressure |-> Uniform(950, 1050, u),
          wind_speed |-> Uniform(0, 40 * Scale, u),
          wind_direction |-> Uniform(0, 360, u),
          humidity |-> Uniform(0, 100, u),
          location |-> loc.coordinates,
          timestamp |-> "isoformat",
          source |-> "stormglass_real"]

\* RealMarineService.get_marine_weather: every exception becomes None
get_marine_weather(loc, outcome, u, k) ==
  NoneOnRaise(get_marine_weather_try(loc, outcome, u, k))

\* The sea condition get_current_conditions derives from a wave height
sea_condition_of(wave_height) ==
  IF wave_height < Scale \div 2 THEN "calm"
  ELSE IF wave_height < Scale THEN "slight"
  ELSE IF wave_height < 2 * Scale THEN "moderate"
  ELSE IF wave_height < 3 * Scale THEN "rough"
  ELSE "very_rough"

\* RealMarineService.get_current_conditions; it has no handler of its own, so
\* comparing a None wave height raises TypeError to the caller
current_conditions_of(marine_data) ==
  IF ~Truthy(marine_data) THEN Null
  ELSE IF marine_data.wave_height = NoneNumber THEN Raise("TypeError")
  ELSE [sea_condition |-> sea_condition_of(marine_data.wave_height),
        wave_height |-> marine_data.wave_height,
        water_temperature |-> marine_data.water_temperature,
        visibility |-> marine_data.visibility,
        wind_speed |-> marine_data.wind_speed,
        location |-> marine_data.location,
        timestamp |-> marine_data.timestamp,
        source |-> "stormglass_real"]

get_current_conditions(loc, outcome, u, k) ==
  current_conditions_of(get_marine_weather(loc, outcome, u, k))

---------------------------------------------------------------------------
(* UnifiedDataService: fallback observations and get_comprehensive_data *)

\* round(x, 1) and round(x, 2) of a scaled float x >= 0
Round1(x) == ((x + Scale \div 20) \div (Scale \div 10)) * (Scale \div 10)
Round2(x) == ((x + Scale \div 200) \div (Scale \div 100)) * (Scale \div 100)

\* _get_fallback_weather_data
get_fallback_weather_data(city_name, loc, u) ==
  [temperature |-> Round1(Uniform(15 * Scale, 35 * Scale, u)),
   humidity |-> Uniform(40, 90, u),
   wind_speed |-> Round1(Uniform(2 * Scale, 25 * Scale, u)),
   wind_direction |-> Uniform(0, 360, u),
   pressure |-> Round1(Uniform(1000 * Scale, 1020 * Scale, u)),
   description |-> "Partly cloudy",
   location |-> loc.coordinates,
   timestamp |-> "isoformat",
   source |-> "fallback"]

\* _get_fallback_tide_data
get_fallback_tide_data(city_name, loc, u, k) ==
  [tide_height |-> Round2(Uniform(Scale \div 2, 3 * Scale, u)),
   tide_type |-> Choice(<<"high", "low", "rising", "falling">>, k),
   location |-> city_name,
   timestamp |-> "isoformat",
   source |-> "fallback"]

\* _get_fallback_marine_data
get_fallback_marine_data(city_name, loc, u, k) ==
  [sea_condition |-> Choice(<<"calm", "slight", "moderate", "rough">>, k),
   wave_height |-> Round1(Uniform((3 * Scale) \div 10, (25 * Scale) \div 10, u)),
   water_temperature |-> Round1(Uniform(15 * Scale, 28 * Scale, u)),
   visibility |-> Uniform(5, 25, u),
   wind_speed |-> Round1(Uniform(3 * Scale, 20 * Scale, u)),
   location |-> loc.coordinates,
   timestamp |-> "isoformat",
   source |-> "fallback"]

\* _get_air_quality_data
get_air_quality_data(loc, u) ==
  [aqi |-> Uniform(20, 150, u),
   pm25 |-> Round1(Uniform(5 * Scale, 60 * Scale, u)),
   pm10 |-> Round1(Uniform(10 * Scale, 100 * Scale, u)),
   o3 |-> Round1(Uniform(20 * Scale, 80 * Scale, u)),
   location |-> loc.coordinates,
   timestamp |-> "isoformat",
   source |-> "fallback"]

\* _get_ocean_currents_data
get_ocean_currents_data(loc, u) ==
  [current_speed |-> Round2(Uniform(Scale \div 10, 2 * Scale, u)),
   current_direction |-> Uniform(0, 360, u),
   temperature |-> Round1(Uniform(15 * Scale, 28 * Scale, u)),
   salinity |-> Round2(Uniform(30 * Scale, 35 * Scale, u)),
   location |-> loc.coordinates,
   timestamp |-> "isoformat",
   source |-> "fallback"]

\* What one aggregation meets: the outcome of each provider call, whether an
\* exception is raised in the part of get_comprehensive_data that no inner
\* handler guards (lines 344-349 and 386-407), and the random source.
Envs ==
  [weather : WeatherOutcomes, tide : TideOutcomes, marine : MarineOutcomes,
   fault : BOOLEAN, u : Draws, k : Choices]

\* The provenance entry of one source: 'x_real' if data and 'source' in data
provenance(data, real_label) ==
  IF Truthy(data) /\ "source" \in DOMAIN data THEN real_label ELSE "fallback"

\* The dataset _get_fallback_comprehensive_data builds for a location
fallback_dataset(location_info, e) ==
  [location |-> location_info,
   weather |-> get_fallback_weather_data(location_info.name, location_info, e.u),
   tide |-> get_fallback_tide_data(location_info.name, location_info, e.u, e.k),
   marine |-> get_fallback_marine_data(location_info.name, location_info, e.u, e.k),
   air_quality |-> get_air_quality_data(location_info, e.u),
   ocean_currents |-> get_ocean_currents_data(location_info, e.u),
   timestamp |-> "isoformat",
   data_sources |-> [weather |-> "fallback", tide |-> "fallback", marine |-> "fallback",
                     air_quality |-> "fallback", ocean_currents |-> "fallback"]]

\* The location _get_fallback_comprehensive_data uses when none is resolved
UnknownLocation ==
  [name |-> <<"U","n","k","n","o","w","n"," ","L","o","c","a","t","i","o","n">>,
   lat |-> 0, lon |-> 0, country |-> "Unknown",
   timezone |-> <<"U","T","C">>, coordinates |-> <<"0",",","0">>]

\* A variant of OrUnknown that takes the placeholder whatever was resolved
OrUnknown_always(location_info) == UnknownLocation

\* `if not location_info:` of _get_fallback_comprehensive_data
OrUnknown(location_info) ==
  IF Truthy(location_info) THEN location_info ELSE UnknownLocation

\* _get_fallback_comprehensive_data
get_fallback_comprehensive_data(location_input, e) ==
  fallback_dataset(OrUnknown(LocationOf(location_input)), e)

\* Step 1 of get_comprehensive_data: the weather observation
weather_step(location_info, e) ==
  OnRaise(get_current_weather(location_info, e.weather, e.u),
          get_fallback_weather_data(location_info.name, location_info, e.u))

\* Step 2 of get_comprehensive_data: the tide observation
tide_step(location_info, e) ==
  OnRaiseOrFalsy(get_current_water_level(Normalize(location_info.name), e.tide, e.k),
                 get_fallback_tide_data(location_info.name, location_info, e.u, e.k))

\* Step 3 of get_comprehensive_data: the marine observation
marine_step(location_info, e) ==
  OnRaiseOrFalsy(get_current_conditions(location_info, e.marine, e.u, e.k),
                 get_fallback_marine_data(location_info.name, location_info, e.u, e.k))

\* The dict get_comprehensive_data returns on its normal path
comprehensive_dataset(location_info, weather_data, tide_data, marine_data, e) ==
  [location |-> location_info,
   weather |-> weather_data,
   tide |-> tide_data,
   marine |-> marine_data,
   air_quality |-> get_air_quality_data(location_info, e.u),
   ocean_currents |-> get_ocean_currents_data(location_info, e.u),
   timestamp |-> "isoformat",
   data_sources |->
     [weather |-> provenance(weather_data, "openweathermap_real"),
      tide |-> provenance(tide_data, "noaa_real"),
      marine |-> provenance(marine_data, "stormglass_real"),
      air_quality |-> "fallback", ocean_currents |-> "fallback"]]

\* The try block of get_comprehensive_data, for a resolved location
aggregate(location_info, e) ==
  IF ~Truthy(location_info) THEN Raise("ValueError")
  ELSE IF e.fault THEN Raise("Exception")
  ELSE comprehensive_dataset(location_info, weather_step(location_info, e),
                             tide_step(location_info, e), marine_step(location_info, e), e)

\* The try block of get_comprehensive_data
get_comprehensive_data_try(location_input, e) ==
  aggregate(LocationOf(location_input), e)

\* A variant of get_comprehensive_data without the outer handler
get_comprehensive_data_unhandled(location_input, e) ==
  get_comprehensive_data_try(location_input, e)

\* UnifiedDataService.get_comprehensive_data
get_comprehensive_data(location_input, e) ==
  OnRaise(get_comprehensive_data_try(location_input, e),
          get_fallback_comprehensive_data(location_input, e))

---------------------------------------------------------------------------
(* UnifiedDataService: the source adapters and their simulations *)

\* What the HTTP call of an adapter can end in: a usable payload, an exception
\* of requests (timeout, unreachable host), a status other than 200 (an invalid
\* credential among them), a payload that lacks an expected field, and a
\* well-formed payload that carries no data.
AdapterOutcomes == {"ok", "request_error", "bad_status", "missing_field", "no_data"}

\* What one adapter call meets: whether the provider's API key is set, the
\* outcome of the HTTP call, the hour of the clock and the random source.
AdapterEnvs ==
  [key : BOOLEAN, http : AdapterOutcomes, hour : Hours, u : Draws, k : Choices]

Max(a, b) == IF a >= b THEN a ELSE b

\* A variant of base_temp_of that takes the temperate band at every latitude
base_temp_of_flat(lat, u) == 18 * Scale + Uniform(-3 * Scale, 3 * Scale, u)

\* The base temperature of _generate_realistic_weather by latitude band
base_temp_of(lat, u) ==
  IF Abs(lat) < (235 * Scale) \div 10 THEN 28 * Scale + Uniform(-2 * Scale, 2 * Scale, u)
  ELSE IF Abs(lat) < 45 * Scale THEN 18 * Scale + Uniform(-3 * Scale, 3 * Scale, u)
  ELSE 8 * Scale + Uniform(-4 * Scale, 4 * Scale, u)

\* _generate_realistic_weather
generate_realistic_weather(lat, lon, location_info, e) ==
  [timestamp |-> "datetime",
   location |-> location_info.coordinates,
   city_name |-> location_info.name,
   country |-> location_info.country,
   timezone |-> location_info.timezone,
   temperature |-> Round1(base_temp_of(lat, e.u)
                            + (IF 6 <= e.hour /\ e.hour <= 18 THEN 6 * Scale ELSE -4 * Scale)),
   humidity |-> Uniform(65, 85, e.u),
   wind_speed |-> Round1(Max(0, IF 10 <= e.hour /\ e.hour <= 16
                                THEN 12 * Scale + Uniform(-3 * Scale, 8 * Scale, e.u)
                                ELSE 6 * Scale + Uniform(-2 * Scale, 4 * Scale, e.u))),
   wind_direction |-> Uniform(0, 360, e.u),
   pressure |-> 1013 * Scale + Uniform(-12 * Scale, 12 * Scale, e.u),
   description |-> "partly cloudy",
   source |-> "realistic_simulation"]

\* abs(math.sin(k * pi / 12)) in millionths, for k = 0..11 (the period of the
\* absolute sine is 12 hours)
AbsSinMicro ==
  <<0, 258819, 500000, 707107, 866025, 965926, 1000000, 965926, 866025, 707107,
    500000, 258819>>

\* A variant of tide_height_at without the shift of six hours:
\* 1.8 + 1.2 * abs(math.sin(hour * math.pi / 12))
tide_height_at_unshifted(hour) ==
  (18 * Scale) \div 10 + (12 * AbsSinMicro[(hour % 12) + 1]) \div (1000000 \div (Scale \div 10))

\* A variant of tide_height_at without abs(): the sine is negative in the
\* twelve hours before 6 and after 18
tide_height_at_signed(hour) ==
  (18 * Scale) \div 10
    + (IF 6 <= hour /\ hour <= 18 THEN 1 ELSE -1)
        * ((12 * AbsSinMicro[((hour + 6) % 12) + 1]) \div (1000000 \div (Scale \div 10)))

\* 1.8 + 1.2 * abs(math.sin((hour - 6) * math.pi / 12)) as a scaled float
tide_height_at(hour) ==
  (18 * Scale) \div 10 + (12 * AbsSinMicro[((hour + 6) % 12) + 1]) \div (1000000 \div (Scale \div 10))

\* _generate_realistic_tide
generate_realistic_tide(location_info, e) ==
  [timestamp |-> "datetime",
   location |-> location_info.coordinates,
   city_name |-> location_info.name,
   country |-> location_info.country,
   timezone |-> location_info.timezone,
   tide_height |-> Round2(tide_height_at(e.hour)),
   tide_type |-> IF 6 <= e.hour /\ e.hour <= 18 THEN "rising" ELSE "falling",
   source |-> "realistic_simulation"]

\* _generate_realistic_ocean
generate_realistic_ocean(lat, lon, location_info, e) ==
  [timestamp |-> "datetime",
   location |-> location_info.coordinates,
   city_name |-> location_info.name,
   country |-> location_info.country,
   timezone |-> location_info.timezone,
   wave_height |-> Round1(IF 8 <= e.hour /\ e.hour <= 16
                          THEN (18 * Scale) \div 10
                                 + Uniform(-(3 * Scale) \div 10, (8 * Scale) \div 10, e.u)
                          ELSE (12 * Scale) \div 10
                                 + Uniform(-(2 * Scale) \div 10, (4 * Scale) \div 10, e.u)),
   wave_period |-> 8 * Scale + Uniform(-Scale, Scale, e.u),
   current_speed |-> (3 * Scale) \div 10 + Uniform(-Scale \div 10, (2 * Scale) \div 10, e.u),
   current_direction |-> 45 * Scale + Uniform(-15 * Scale, 15 * Scale, e.u),
   sea_surface_temp |-> (265 * Scale) \div 10 + Uniform(-Scale, Scale, e.u),
   source |-> "realistic_simulation"]

\* The rush hours of _generate_realistic_pollution
RushHour(hour) == (7 <= hour /\ hour <= 9) \/ (17 <= hour /\ hour <= 19)

\* _generate_realistic_pollution
generate_realistic_pollution(location_info, e) ==
  [timestamp |-> "datetime",
   location |-> location_info.coordinates,
   city_name |-> location_info.name,
   country |-> location_info.country,
   timezone |-> location_info.timezone,
   water_quality |-> IF RushHour(e.hour) THEN "moderate" ELSE "good",
   pollution_level |-> IF RushHour(e.hour) THEN "moderate" ELSE "low",
   alerts |-> <<>>,
   monitoring_data |->
     [turbidity |-> 10 * Scale + Uniform(-2 * Scale, 2 * Scale, e.u),
      dissolved_oxygen |-> 7 * Scale + Uniform(-(4 * Scale) \div 10, (4 * Scale) \div 10, e.u),
      ph |-> 7 * Scale + Uniform(-(2 * Scale) \div 10, (2 * Scale) \div 10, e.u),
      bacteria_count |-> IF RushHour(e.hour) THEN 180 + Uniform(-40, 80, e.u)
                         ELSE 90 + Uniform(-25, 40, e.u)],
   illegal_dumping_detected |-> Choice(<<TRUE, FALSE>>, e.k),
   suspicious_activity |-> <<>>,
   source |-> "realistic_simulation"]

\* The stations of _find_nearest_noaa_station
noaa_stations ==
  << [id |-> "9447130", lat |-> 476026, lon |-> -1223393],
     [id |-> "9410230", lat |-> 327157, lon |-> -1171611],
     [id |-> "9413450", lat |-> 366050, lon |-> -1218880],
     [id |-> "9414290", lat |-> 378063, lon |-> -1224659] >>

\* The squared distance of the nearest-station search, in hundredths of a
\* degree (the square root is monotone, so the nearest station is the same)
Distance2(lat, lon, st) ==
  ((lat - st.lat) \div (Scale \div 100)) * ((lat - st.lat) \div (Scale \div 100))
    + ((lon - st.lon) \div (Scale \div 100)) * ((lon - st.lon) \div (Scale \div 100))

\* _find_nearest_noaa_station: the first station at the least distance
find_nearest_noaa_station(lat, lon) ==
  noaa_stations[CHOOSE i \in DOMAIN noaa_stations :
                  /\ \A j \in DOMAIN noaa_stations :
                       Distance2(lat, lon, noaa_stations[i]) <= Distance2(lat, lon, noaa_stations[j])
                  /\ \A j \in 1..(i - 1) :
                       Distance2(lat, lon, noaa_stations[j]) > Distance2(lat, lon, noaa_stations[i])].id

\* The dict get_weather_data builds from a 200 response; data["main"],
\* data["wind"] or data["weather"] missing raises KeyError
weather_from_response(location_info, e) ==
  IF e.http \in {"missing_field", "no_data"} THEN Raise("KeyError")
  ELSE [timestamp |-> "datetime",
        location |-> location_info.coordinates,
        city_name |-> location_info.name,
        country |-> location_info.country,
        timezone |-> location_info.timezone,
        temperature |-> Uniform(-10 * Scale, 45 * Scale, e.u),
        humidity |-> Uniform(0, 100, e.u),
        wind_speed |-> Uniform(0, 40 * Scale, e.u),
        wind_direction |-> Uniform(0, 360, e.u),
        pressure |-> Uniform(950, 1050, e.u),
        description |-> "clear sky",
        source |-> "openweather_api"]

\* The try block of get_weather_data, for the resolved location
weather_data_try(location_info, e) ==
  IF e.key /\ e.http = "request_error" THEN Raise("RequestException")
  ELSE IF e.key /\ e.http # "bad_status" THEN weather_from_response(location_info, e)
  ELSE generate_realistic_weather(location_info.lat, location_info.lon, location_info, e)

\* A variant of get_weather_data without its handler
get_weather_data_unhandled(location_input, e) ==
  weather_data_try(LocationOf(location_input), e)

\* UnifiedDataService.get_weather_data
get_weather_data(location_input, e) ==
  OnRaise(weather_data_try(LocationOf(location_input), e),
          generate_realistic_weather(LocationOf(location_input).lat,
                                     LocationOf(location_input).lon,
                                     LocationOf(location_input), e))

\* The dict get_tide_data builds from the last prediction; a prediction
\* without "v" or "type" raises KeyError
tide_from_response(location_info, e) ==
  IF e.http = "missing_field" THEN Raise("KeyError")
  ELSE [timestamp |-> "datetime",
        location |-> location_info.coordinates,
        city_name |-> location_info.name,
        country |-> location_info.country,
        timezone |-> location_info.timezone,
        tide_height |-> Choice(WaterLevels, e.k),
        tide_type |-> Choice(<<"high", "low">>, e.k),
        source |-> "noaa_api"]

\* The try block of get_tide_data, for the resolved location and the station
\* found for it
tide_data_try(location_info, station_id, e) ==
  IF e.key /\ station_id # "None" /\ e.http = "request_error"
  THEN Raise("RequestException")
  ELSE IF e.key /\ station_id # "None" /\ e.http \in {"ok", "missing_field"}
  THEN tide_from_response(location_info, e)
  ELSE generate_realistic_tide(location_info, e)

\* UnifiedDataService.get_tide_data
get_tide_data(location_input, e) ==
  OnRaise(tide_data_try(LocationOf(location_input),
                        find_nearest_noaa_station(LocationOf(location_input).lat,
                                                  LocationOf(location_input).lon), e),
          generate_realistic_tide(LocationOf(location_input), e))

\* The try block of get_ocean_data: it makes no external call
ocean_data_try(location_info, e) ==
  generate_realistic_ocean(location_info.lat, location_info.lon, location_info, e)

\* UnifiedDataService.get_ocean_data
get_ocean_data(location_input, e) ==
  OnRaise(ocean_data_try(LocationOf(location_input), e),
          generate_realistic_ocean(LocationOf(location_input).lat,
                                   LocationOf(location_input).lon,
                                   LocationOf(location_input), e))

\* Air quality indices a provider reports, one per pollution level
AqiLevels == <<30, 70, 120>>

\* "good"/"low" if aqi < 50, "moderate" if aqi < 100, else "poor"/"high"
aqi_band(aqi, below50, below100, otherwise) ==
  IF aqi < 50 THEN below50 ELSE IF aqi < 100 THEN below100 ELSE otherwise

\* The dict get_pollution_data builds from a response whose status is "ok"
pollution_from_response(location_info, aqi, e) ==
  [timestamp |-> "datetime",
   location |-> location_info.coordinates,
   city_name |-> location_info.name,
   country |-> location_info.country,
   timezone |-> location_info.timezone,
   water_quality |-> aqi_band(aqi, "good", "moderate", "poor"),
   pollution_level |-> aqi_band(aqi, "low", "moderate", "high"),
   alerts |-> <<>>,
   monitoring_data |->
     [turbidity |-> 10 * Scale + Uniform(-3 * Scale, 3 * Scale, e.u),
      dissolved_oxygen |-> 7 * Scale + Uniform(-Scale \div 2, Scale \div 2, e.u),
      ph |-> 7 * Scale + Uniform(-(3 * Scale) \div 10, (3 * Scale) \div 10, e.u),
      bacteria_count |-> 100 + Uniform(-30, 50, e.u)],
   illegal_dumping_detected |-> Choice(<<TRUE, FALSE>>, e.k),
   suspicious_activity |-> <<>>,
   source |-> "waqi_api"]

\* The try block of get_pollution_data, for the resolved location; a payload
\* without "status" raises KeyError
pollution_data_try(location_info, e) ==
  IF e.key /\ e.http = "request_error" THEN Raise("RequestException")
  ELSE IF e.key /\ e.http = "missing_field" THEN Raise("KeyError")
  ELSE IF e.key /\ e.http = "ok"
  THEN pollution_from_response(location_info, Choice(AqiLevels, e.k), e)
  ELSE generate_realistic_pollution(location_info, e)

\* UnifiedDataService.get_pollution_data
get_pollution_data(location_input, e) ==
  OnRaise(pollution_data_try(LocationOf(location_input), e),
          generate_realistic_pollution(LocationOf(location_input), e))

---------------------------------------------------------------------------
(* SimpleAlertService *)

\* d.get(k): None when the key is absent
DictGet(d, k) == IF k \in DOMAIN d THEN d[k] ELSE Null

\* d[k]: KeyError when the key is absent
Subscript(d, k) == IF k \in DOMAIN d THEN d[k] ELSE Raise("KeyError")

\* combined.update(d) when d is truthy
Update(combined, d) ==
  IF Truthy(d)
  THEN [k \in DOMAIN combined \cup DOMAIN d |-> IF k \in DOMAIN d THEN d[k] ELSE combined[k]]
  ELSE combined

\* {} : the dict without keys
EmptyDict == [k \in {} |-> Null]

\* The most threats the classifier reports for one record
MaxThreats == 2

\* What one derivation meets: how many threats the classifier reports, whether
\* random.random() < 0.3, the severity choice of the demonstration alert, and
\* the second of the clock and the random draw of each created alert's id
DeriveEnvs ==
  [n : 0..MaxThreats, demo : BOOLEAN, k : {0, 1}, second : {0}, draws : [1..(MaxThreats + 1) -> Draws]]

\* SmartThreatDetector.detect_threats, by its contract: a list of
\* {type, severity, location, description}, here a.n of them
detect_threats(combined_data, a) ==
  [i \in 1..a.n |->
     [type |-> Choice(<<"high_wind", "high_tide", "storm_risk">>, i - 1),
      severity |-> Choice(<<"medium", "high">>, i - 1),
      location |-> IF "location" \in DOMAIN combined_data THEN combined_data.location
                   ELSE <<>>,
      description |-> "Strong winds detected"]]

\* SimpleAlertService._create_alert; the id is the second of the clock and
\* random.randint(1000, 9999)
create_alert(alert_type, severity, location, description, triggered_by, second, draw) ==
  [id |-> <<"alert", second, Uniform(1000, 9999, draw)>>,
   alert_type |-> alert_type,
   severity |-> severity,
   location |-> location,
   description |-> description,
   is_active |-> TRUE,
   triggered_by |-> triggered_by,
   timestamp |-> "isoformat",
   source |-> "smart_ml_alert_service"]

\* A variant of alerts_of_threats that takes the threats last to first
alerts_of_threats_reversed(ml_threats, a) ==
  [i \in 1..Len(ml_threats) |->
     create_alert(ml_threats[Len(ml_threats) + 1 - i].type,
                  ml_threats[Len(ml_threats) + 1 - i].severity,
                  ml_threats[Len(ml_threats) + 1 - i].location,
                  ml_threats[Len(ml_threats) + 1 - i].description,
                  "smart_ml", a.second, a.draws[i])]

\* The alerts generate_alerts_from_data makes of the classifier's threats
alerts_of_threats(ml_threats, a) ==
  [i \in 1..Len(ml_threats) |->
     create_alert(ml_threats[i].type, ml_threats[i].severity, ml_threats[i].location,
                  ml_threats[i].description, "smart_ml", a.second, a.draws[i])]

\* The location of the demonstration alert
demo_location(weather_data) ==
  IF Truthy(weather_data) /\ "location" \in DOMAIN weather_data THEN weather_data.location
  ELSE <<"1","9",".","0","7","6","0",",","7","2",".","8","7","7","7">>

\* A variant of demo_alerts that appends the alert only when there is
\* weather data
demo_alerts_if_weather(weather_data, a, position) ==
  IF a.demo /\ Truthy(weather_data)
  THEN << create_alert("flooding_risk", Choice(<<"low", "medium">>, a.k),
                       demo_location(weather_data),
                       "Minor flooding risk in low-lying coastal areas. Monitor local conditions.",
                       "system_monitoring", a.second, a.draws[position]) >>
  ELSE <<>>

\* The demonstration alert generate_alerts_from_data appends with chance 0.3
demo_alerts(weather_data, a, position) ==
  IF a.demo
  THEN << create_alert("flooding_risk", Choice(<<"low", "medium">>, a.k),
                       demo_location(weather_data),
                       "Minor flooding risk in low-lying coastal areas. Monitor local conditions.",
                       "system_monitoring", a.second, a.draws[position]) >>
  ELSE <<>>

\* The dict generate_alerts_from_data hands to the classifier
combined_data_of(weather_data, tide_data, ocean_data, pollution_data) ==
  Update(Update(Update(Update(EmptyDict, weather_data), tide_data), ocean_data),
         pollution_data)

\* SimpleAlertService.generate_alerts_from_data
generate_alerts_from_data(weather_data, tide_data, ocean_data, pollution_data, a) ==
  alerts_of_threats(detect_threats(combined_data_of(weather_data, tide_data, ocean_data,
                                                    pollution_data), a), a)
    \o demo_alerts(weather_data, a, a.n + 1)

\* A variant of get_active_alerts that leaves out the alerts for which
\* deactivate_alert has returned True
get_active_alerts_filtered ==
  SelectSeq(
    << [id |-> "alert_20250830_001", alert_type |-> "high_wind", severity |-> "medium",
        location |-> "19.0760,72.8777",
        description |-> "ML detected moderate winds: 22 m/s. Monitor coastal conditions.",
        is_active |-> TRUE, triggered_by |-> "smart_ml", timestamp |-> "isoformat",
        source |-> "smart_ml_alert_service"],
       [id |-> "alert_20250830_002", alert_type |-> "high_tide", severity |-> "low",
        location |-> "19.0760,72.8777",
        description |-> "ML detected high tide approaching: 2.8m expected in next 2 hours.",
        is_active |-> TRUE, triggered_by |-> "smart_ml", timestamp |-> "isoformat",
        source |-> "smart_ml_alert_service"] >>,
    LAMBDA alert : alert.id \notin deactivated)

\* SimpleAlertService.get_active_alerts: two sample alerts
get_active_alerts ==
  << [id |-> "alert_20250830_001", alert_type |-> "high_wind", severity |-> "medium",
      location |-> "19.0760,72.8777",
      description |-> "ML detected moderate winds: 22 m/s. Monitor coastal conditions.",
      is_active |-> TRUE, triggered_by |-> "smart_ml", timestamp |-> "isoformat",
      source |-> "smart_ml_alert_service"],
     [id |-> "alert_20250830_002", alert_type |-> "high_tide", severity |-> "low",
      location |-> "19.0760,72.8777",
      description |-> "ML detected high tide approaching: 2.8m expected in next 2 hours.",
      is_active |-> TRUE, triggered_by |-> "smart_ml", timestamp |-> "isoformat",
      source |-> "smart_ml_alert_service"] >>

\* SimpleAlertService.deactivate_alert
deactivate_alert(alert_id) == TRUE

\* The alert ids requests name: the two listed ones and one never created
AlertIds == {"alert_20250830_001", "alert_20250830_002", "alert_19990101_000"}

---------------------------------------------------------------------------
(* The report services the routes call *)

StakeholderTypes ==
  {"disaster_management", "coastal_government", "environmental_ngo", "fisherfolk",
   "civil_defence"}
HabitatTypes ==
  {"mangrove_forest", "seagrass_bed", "salt_marsh", "coral_reef", "coastal_wetland",
   "estuary"}
EconomicSectors ==
  {"fisheries", "tourism", "shipping", "agriculture", "manufacturing", "services"}

\* Enum(value): the member, ValueError for a value outside the enumeration
EnumOf(members, value) ==
  IF value \in members THEN [value |-> value] ELSE Raise("ValueError")

\* stakeholder_configs[...]["alert_types"]
config_alert_types(stakeholder_type) ==
  CASE stakeholder_type = "disaster_management" -> {"all"}
    [] stakeholder_type = "coastal_government" -> {"infrastructure", "economic", "social"}
    [] stakeholder_type = "environmental_ngo" -> {"habitat", "pollution", "ecosystem"}
    [] stakeholder_type = "fisherfolk" -> {"fishing_safety", "weather", "tides"}
    [] stakeholder_type = "civil_defence" -> {"all"}

\* DisasterManagementService.generate_stakeholder_alert: None for an alert type
\* the stakeholder does not take
generate_stakeholder_alert(alert_data, stakeholder_type, location) ==
  IF config_alert_types(stakeholder_type) # {"all"}
     /\ alert_data.alert_type \notin config_alert_types(stakeholder_type)
  THEN Null
  ELSE [stakeholder_type |-> stakeholder_type,
        alert_id |-> alert_data.id,
        location |-> location,
        alert_type |-> alert_data.alert_type,
        description |-> alert_data.description]

\* HabitatProtectionService.assess_habitat_health
assess_habitat_health(habitat_type, location) ==
  [habitat_type |-> habitat_type, location |-> location, kind |-> "assessment"]

\* HabitatProtectionService.generate_habitat_report
generate_habitat_report(habitat_type, location) ==
  [habitat_type |-> habitat_type, location |-> location, kind |-> "report"]

\* CoastalGovernmentService.generate_economic_impact_analysis
generate_economic_impact_analysis(location, sector) ==
  [sector |-> sector, location |-> location, kind |-> "impact_analysis"]

\* The stakeholder_info of the dashboard; FisherfolkSafetyService has no
\* get_fishing_safety_report, so that call raises AttributeError; a type
\* that matches no branch gets no stakeholder_info
stakeholder_info_of(stakeholder_type, location) ==
  CASE stakeholder_type = "disaster_management" ->
         [kind |-> "emergency_coordination_summary", location |-> location]
    [] stakeholder_type = "environmental_ngo" ->
         [kind |-> "habitat_types", location |-> location]
    [] stakeholder_type = "fisherfolk" -> Raise("AttributeError")
    [] stakeholder_type = "civil_defence" ->
         [kind |-> "coordination_summary", location |-> location]
    [] stakeholder_type = "coastal_government" ->
         [kind |-> "government_service_summary", location |-> location]
    [] OTHER -> Null

---------------------------------------------------------------------------
(* The HTTP routes *)

\* raise HTTPException(status_code=...)
HTTPException(status_code) == [raised |-> "HTTPException", status_code |-> status_code]

\* A route's `try: return body / except Exception: raise HTTPException(500)`:
\* whatever is raised inside the try block, an HTTPException included, is
\* answered with status 500
Respond(r) ==
  IF IsRaise(r) THEN [status_code |-> 500, detail |-> r.raised]
  ELSE [status_code |-> 200, body |-> r]

\* The dict { k: v for k, v in d.items() if k in keys }
Restrict(d, keys) == [k \in DOMAIN d \cap keys |-> d[k]]

WeatherColumns ==
  {"timestamp", "location", "temperature", "humidity", "wind_speed", "wind_direction",
   "pressure", "description", "source"}
TideColumns == {"timestamp", "location", "tide_height", "tide_type", "source"}

\* db.add of the filtered observation when the observation is truthy, then
\* db.commit()
store(rows, observation, columns) ==
  IF Truthy(observation) THEN Append(rows, Restrict(observation, columns)) ELSE rows

\* The return statement of get_data_for_location; a key the dataset lacks
\* raises KeyError
data_response(comprehensive_data, alerts) ==
  IF \E k \in {"timestamp", "location", "city_name", "country", "timezone"} :
       IsRaise(Subscript(comprehensive_data, k))
  THEN Raise("KeyError")
  ELSE [status |-> "success",
        timestamp |-> comprehensive_data.timestamp,
        location |-> comprehensive_data.location,
        city_name |-> comprehensive_data.city_name,
        country |-> comprehensive_data.country,
        timezone |-> comprehensive_data.timezone,
        data |-> comprehensive_data,
        alerts_generated |-> Len(alerts),
        source |-> "unified_data_service"]

\* The alerts get_data_for_location derives: the dataset has no "ocean" and no
\* "pollution" key, so both arguments are None
route_alerts(comprehensive_data, a) ==
  generate_alerts_from_data(DictGet(comprehensive_data, "weather"),
                            DictGet(comprehensive_data, "tide"),
                            DictGet(comprehensive_data, "ocean"),
                            DictGet(comprehensive_data, "pollution"), a)

\* GET /api/data/{location}: the response
get_data_for_location(comprehensive_data, a) ==
  Respond(data_response(comprehensive_data, route_alerts(comprehensive_data, a)))

\* DELETE /api/alerts/{alert_id}: the response
deactivate_alert_route(alert_id) ==
  Respond(IF deactivate_alert(alert_id)
          THEN [status |-> "success", alert_id |-> alert_id]
          ELSE HTTPException(404))

\* GET /api/alerts: the response
get_alerts ==
  Respond([status |-> "success", alerts |-> get_active_alerts,
           total_alerts |-> Len(get_active_alerts), timestamp |-> "isoformat"])

\* The loop of get_stakeholder_alert: the alerts the stakeholder takes; the
\* ValueError of an unknown stakeholder type skips every alert
stakeholder_alerts_of(alerts, stakeholder_type, location) ==
  IF IsRaise(EnumOf(StakeholderTypes, stakeholder_type)) THEN <<>>
  ELSE LET made == [i \in DOMAIN alerts |->
                      generate_stakeholder_alert(alerts[i], stakeholder_type, location)]
       IN SelectSeq(made, Truthy)

\* The try block of get_stakeholder_alert
get_stakeholder_alert_try(stakeholder_type, location, current_data, alerts) ==
  IF IsRaise(current_data) THEN current_data
  ELSE IF alerts = <<>> THEN HTTPException(404)
  ELSE IF stakeholder_alerts_of(alerts, stakeholder_type, location) = <<>>
  THEN HTTPException(404)
  ELSE [status |-> "success", stakeholder_type |-> stakeholder_type,
        location |-> location,
        alerts |-> stakeholder_alerts_of(alerts, stakeholder_type, location),
        timestamp |-> "isoformat"]

\* GET /api/disaster-management/stakeholder-alert/{stakeholder_type}
get_stakeholder_alert(stakeholder_type, location, e) ==
  Respond(get_stakeholder_alert_try(stakeholder_type, location,
                                    get_comprehensive_data(location, e), get_active_alerts))

\* The try block of the three routes that convert the path parameter to an
\* enumeration member and hand it to a report service
report_try(member, report, field) ==
  IF IsRaise(member) THEN member
  ELSE IF ~Truthy(report) THEN HTTPException(404)
  ELSE [status |-> "success", kind |-> field, report |-> report, timestamp |-> "isoformat"]

\* GET /api/habitat-protection/assessment/{habitat_type}
get_habitat_assessment(habitat_type, location) ==
  Respond(report_try(EnumOf(HabitatTypes, habitat_type),
                     assess_habitat_health(habitat_type, location), "habitat_assessment"))

\* GET /api/habitat-protection/report/{habitat_type}
get_habitat_protection_report(habitat_type, location) ==
  Respond(report_try(EnumOf(HabitatTypes, habitat_type),
                     generate_habitat_report(habitat_type, location), "habitat_report"))

\* GET /api/coastal-government/economic-impact/{sector}
get_economic_impact_analysis(sector, location) ==
  Respond(report_try(EnumOf(EconomicSectors, sector),
                     generate_economic_impact_analysis(location, sector),
                     "economic_impact_analysis"))

\* The try block of get_stakeholder_dashboard
dashboard_try(stakeholder_type, location, current_data, stakeholder_info) ==
  IF IsRaise(current_data) THEN current_data
  ELSE IF IsRaise(stakeholder_info) THEN stakeholder_info
  ELSE [status |-> "success",
        stakeholder_dashboard |->
          [location |-> location, stakeholder_type |-> stakeholder_type,
           timestamp |-> "isoformat",
           current_conditions |->
             [weather |-> IF "weather" \in DOMAIN current_data THEN current_data.weather
                          ELSE EmptyDict,
              ocean |-> IF "ocean" \in DOMAIN current_data THEN current_data.ocean
                        ELSE EmptyDict,
              alerts |-> get_active_alerts],
           stakeholder_info |-> stakeholder_info]]

\* GET /api/stakeholder-dashboard/{stakeholder_type}
get_stakeholder_dashboard(stakeholder_type, location, e) ==
  Respond(dashboard_try(stakeholder_type, location, get_comprehensive_data(location, e),
                        stakeholder_info_of(stakeholder_type, location)))

\* GET /api/analytics/performance/{stakeholder_type}
get_stakeholder_performance(stakeholder_type, location) ==
  Respond([status |-> "success",
           performance |-> [stakeholder_type |-> stakeholder_type, location |-> location,
                            timestamp |-> "isoformat"]])

\* The path parameters requests carry: every member of the enumeration and
\* two values outside it
StakeholderParams == StakeholderTypes \cup {"tourist", "FISHERFOLK"}
HabitatParams == HabitatTypes \cup {"rainforest", "CORAL_REEF"}
SectorParams == EconomicSectors \cup {"mining", "TOURISM"}

\* The locations the routes are asked for
RouteLocations == {"mumbai", "miami"}

\* The locations, provider outcomes and derivations GET /api/data is driven with
RouteInputs == {<<"m","i","a","m","i">>, <<"a","t","l","a","n","t","i","s">>}
RouteEnvs ==
  {e \in Envs : /\ e.u = 0 /\ e.k = 0 /\ e.marine = "ok"
                /\ e.weather \in {"ok", "request_error"}
                /\ e.tide \in {"ok_number", "request_error"}}
RouteDeriveEnvs == {a \in DeriveEnvs : a.k = 0 /\ \A i \in DOMAIN a.draws : a.draws[i] = 0}

\* The most rows a table holds
MaxRows == 2

---------------------------------------------------------------------------
(* Operations *)

Init ==
  /\ op = "idle"
  /\ arg = <<>>
  /\ ret = Null
  /\ weather_rows = <<>>
  /\ tide_rows = <<>>
  /\ deactivated = {}
  /\ resolved = Null
  /\ generated = FALSE

GetLocationInfo ==
  /\ op = "idle"
  /\ \E s \in Inputs :
       /\ op' = "get_location_info"
       /\ arg' = <<s>>
       /\ ret' = LocationOf(s)
  /\ UNCHANGED stored

\* The caller takes the result; the service is idle again.
Deliver ==
  /\ op # "idle"
  /\ op' = "idle"
  /\ arg' = <<>>
  /\ ret' = Null
  /\ resolved' = IF op = "get_location_info"
                 THEN [input |-> arg[1], location |-> ret] ELSE resolved
  /\ generated' = (generated \/ (op = "generate_alerts_from_data" /\ Len(ret) >= 1))
  /\ UNCHANGED <<weather_rows, tide_rows, deactivated>>

GetComprehensiveData ==
  /\ op = "idle"
  /\ \E s \in DataInputs, e \in Envs :
       /\ op' = "get_comprehensive_data"
       /\ arg' = <<s, e>>
       /\ ret' = get_comprehensive_data(s, e)
  /\ UNCHANGED stored

GetWeatherData ==
  /\ op = "idle"
  /\ \E s \in DataInputs, e \in AdapterEnvs :
       /\ op' = "get_weather_data"
       /\ arg' = <<s, e>>
       /\ ret' = get_weather_data(s, e)
  /\ UNCHANGED stored

GetTideData ==
  /\ op = "idle"
  /\ \E s \in DataInputs, e \in AdapterEnvs :
       /\ op' = "get_tide_data"
       /\ arg' = <<s, e>>
       /\ ret' = get_tide_data(s, e)
  /\ UNCHANGED stored

GetOceanData ==
  /\ op = "idle"
  /\ \E s \in DataInputs, e \in AdapterEnvs :
       /\ op' = "get_ocean_data"
       /\ arg' = <<s, e>>
       /\ ret' = get_ocean_data(s, e)
  /\ UNCHANGED stored

GetPollutionData ==
  /\ op = "idle"
  /\ \E s \in DataInputs, e \in AdapterEnvs :
       /\ op' = "get_pollution_data"
       /\ arg' = <<s, e>>
       /\ ret' = get_pollution_data(s, e)
  /\ UNCHANGED stored

\* GET /api/data/{location} with the dataset it aggregated: the rows are
\* committed before the response is built
DataRequest(location, e, a, comprehensive_data) ==
  /\ op' = "get_data_for_location"
  /\ arg' = <<location, e, a>>
  /\ ret' = get_data_for_location(comprehensive_data, a)
  /\ weather_rows' = store(weather_rows, DictGet(comprehensive_data, "weather"), WeatherColumns)
  /\ tide_rows' = store(tide_rows, DictGet(comprehensive_data, "tide"), TideColumns)
  /\ UNCHANGED <<deactivated, resolved, generated>>

GetDataForLocation ==
  /\ op = "idle"
  /\ Len(weather_rows) < MaxRows
  /\ Len(tide_rows) < MaxRows
  /\ \E location \in RouteInputs, e \in RouteEnvs, a \in RouteDeriveEnvs :
       DataRequest(location, e, a, get_comprehensive_data(location, e))

\* get_comprehensive_data over the route's inputs, evaluated once.
DatasetTable ==
  {<<location, e, get_comprehensive_data(location, e)>> :
     location \in RouteInputs, e \in RouteEnvs}

\* get_comprehensive_data(location, e), looked up in the table
DatasetOf(location, e) ==
  (CHOOSE p \in DatasetTable : p[1] = location /\ p[2] = e)[3]

\* generate_alerts_from_data, called as GET /api/data calls it
GenerateAlertsFromData ==
  /\ op = "idle"
  /\ \E location \in RouteInputs, e \in RouteEnvs, a \in DeriveEnvs :
       /\ op' = "generate_alerts_from_data"
       /\ arg' = <<location, e, a>>
       /\ ret' = route_alerts(DatasetOf(location, e), a)
  /\ UNCHANGED stored

GetActiveAlerts ==
  /\ op = "idle"
  /\ op' = "get_active_alerts"
  /\ arg' = <<>>
  /\ ret' = get_active_alerts
  /\ UNCHANGED stored

DeactivateAlert ==
  /\ op = "idle"
  /\ \E alert_id \in AlertIds :
       /\ op' = "deactivate_alert"
       /\ arg' = <<alert_id>>
       /\ ret' = deactivate_alert(alert_id)
       /\ deactivated' = IF deactivate_alert(alert_id) THEN deactivated \cup {alert_id}
                         ELSE deactivated
  /\ UNCHANGED <<weather_rows, tide_rows, resolved, generated>>

GetAlerts ==
  /\ op = "idle"
  /\ op' = "get_alerts"
  /\ arg' = <<>>
  /\ ret' = get_alerts
  /\ UNCHANGED stored

DeactivateAlertRoute ==
  /\ op = "idle"
  /\ \E alert_id \in AlertIds :
       /\ op' = "deactivate_alert_route"
       /\ arg' = <<alert_id>>
       /\ ret' = deactivate_alert_route(alert_id)
       /\ deactivated' = IF deactivate_alert(alert_id) THEN deactivated \cup {alert_id}
                         ELSE deactivated
  /\ UNCHANGED <<weather_rows, tide_rows, resolved, generated>>

GetStakeholderAlert ==
  /\ op = "idle"
  /\ \E stakeholder_type \in StakeholderParams, location \in RouteInputs, e \in RouteEnvs :
       /\ op' = "get_stakeholder_alert"
       /\ arg' = <<stakeholder_type, location>>
       /\ ret' = get_stakeholder_alert(stakeholder_type, location, e)
  /\ UNCHANGED stored

GetHabitatAssessment ==
  /\ op = "idle"
  /\ \E habitat_type \in HabitatParams, location \in RouteLocations :
       /\ op' = "get_habitat_assessment"
       /\ arg' = <<habitat_type, location>>
       /\ ret' = get_habitat_assessment(habitat_type, location)
  /\ UNCHANGED stored

GetHabitatProtectionReport ==
  /\ op = "idle"
  /\ \E habitat_type \in HabitatParams, location \in RouteLocations :
       /\ op' = "get_habitat_protection_report"
       /\ arg' = <<habitat_type, location>>
       /\ ret' = get_habitat_protection_report(habitat_type, location)
  /\ UNCHANGED stored

GetEconomicImpactAnalysis ==
  /\ op = "idle"
  /\ \E sector \in SectorParams, location \in RouteLocations :
       /\ op' = "get_economic_impact_analysis"
       /\ arg' = <<sector, location>>
       /\ ret' = get_economic_impact_analysis(sector, location)
  /\ UNCHANGED stored

GetStakeholderDashboard ==
  /\ op = "idle"
  /\ \E stakeholder_type \in StakeholderParams, location \in RouteInputs, e \in RouteEnvs :
       /\ op' = "get_stakeholder_dashboard"
       /\ arg' = <<stakeholder_type, location>>
       /\ ret' = get_stakeholder_dashboard(stakeholder_type, location, e)
  /\ UNCHANGED stored

GetStakeholderPerformance ==
  /\ op = "idle"
  /\ \E stakeholder_type \in StakeholderParams, location \in RouteLocations :
       /\ op' = "get_stakeholder_performance"
       /\ arg' = <<stakeholder_type, location>>
       /\ ret' = get_stakeholder_performance(stakeholder_type, location)
  /\ UNCHANGED stored

NextResolver == GetLocationInfo \/ Deliver

SpecResolver == Init /\ [][NextResolver]_vars

NextData == GetComprehensiveData \/ Deliver

SpecData == Init /\ [][NextData]_vars

NextAdapters ==
  GetWeatherData \/ GetTideData \/ GetOceanData \/ GetPollutionData \/ Deliver

SpecAdapters == Init /\ [][NextAdapters]_vars

NextIngest == GetDataForLocation \/ Deliver

SpecIngest == Init /\ [][NextIngest]_vars

NextDerive == GenerateAlertsFromData \/ Deliver

SpecDerive == Init /\ [][NextDerive]_vars

NextAlerts == GenerateAlertsFromData \/ DeactivateAlert \/ GetActiveAlerts \/ Deliver

SpecAlerts == Init /\ [][NextAlerts]_vars

Next ==
  \/ GetActiveAlerts \/ DeactivateAlert \/ GetAlerts \/ DeactivateAlertRoute
  \/ GetStakeholderAlert \/ GetHabitatAssessment \/ GetHabitatProtectionReport
  \/ GetEconomicImpactAnalysis \/ GetStakeholderDashboard \/ GetStakeholderPerformance
  \/ Deliver

Spec == Init /\ [][Next]_vars

---------------------------------------------------------------------------
(* Properties of the location resolver, under SpecResolver *)

LocationFields == {"name", "lat", "lon", "country", "timezone", "coordinates"}

\* C9: get_location_info returns a Location record (name, lat, lon, country,
\* timezone, coordinates) for every string input, the empty string and strings
\* with a comma that are not two floats included; it raises nothing and
\* returns no null.
C9_ResolverTotal ==
  op = "get_location_info" =>
    /\ ~IsRaise(ret)
    /\ ret # Null
    /\ DOMAIN ret = LocationFields
    /\ Len(ret.name) > 0
    /\ Len(ret.timezone) > 0
    /\ Len(ret.coordinates) > 0

\* A string with a comma that is not two floats has been resolved.
C9_Witness ==
  /\ op = "get_location_info"
  /\ Contains(arg[1], <<",">>)
  /\ IsRaise(parse_coordinates_try(arg[1]))
  /\ ret.country = "Coastal Region"

\* C10: for every catalog key k, get_location_info(k) returns exactly the
\* name, latitude, longitude, country and timezone stored under k.
C10_CatalogKeyExact ==
  (op = "get_location_info" /\ arg[1] \in CatalogKeys) =>
    \E i \in DOMAIN coastal_cities :
      /\ coastal_cities[i].key = arg[1]
      /\ ret.name = coastal_cities[i].name
      /\ ret.lat = coastal_cities[i].lat
      /\ ret.lon = coastal_cities[i].lon
      /\ ret.country = coastal_cities[i].country
      /\ ret.timezone = coastal_cities[i].timezone

\* A catalog key whose stored name differs from the key has been resolved.
C10_Witness ==
  /\ op = "get_location_info"
  /\ arg[1] = <<"f","i","j","i">>
  /\ ret.country = "Fiji"
  /\ ret.lat = -181416

\* The input matches no catalog key, exactly or partially, and is not a
\* coordinate pair: get_location_info derives its location from the hash.
Unmatched(s) ==
  /\ Normalize(s) \notin CatalogKeys
  /\ \A i \in DOMAIN coastal_cities : ~PartialMatch(s, coastal_cities[i].key)
  /\ ~(Contains(s, <<",">>) /\ ParsesAsPair(s))

\* C11: for a string that matches no catalog key and is no coordinate pair,
\* two calls of get_location_info return the same lat, lon and timezone; the
\* derived location depends on the lowercased input alone, so two inputs
\* that differ only in case get the same one.
C11_DerivedDeterministic ==
  (/\ op = "get_location_info"
   /\ resolved # Null
   /\ StrLower(resolved.input) = StrLower(arg[1])
   /\ Unmatched(arg[1])) =>
    /\ ret.lat = resolved.location.lat
    /\ ret.lon = resolved.location.lon
    /\ ret.timezone = resolved.location.timezone

\* An unknown name has been resolved twice, typed in two different cases.
C11_Witness ==
  /\ op = "get_location_info"
  /\ resolved # Null
  /\ resolved.input # arg[1]
  /\ StrLower(resolved.input) = StrLower(arg[1])
  /\ Unmatched(arg[1])
  /\ ret.country = "Coastal Region"
  /\ ret.lat = resolved.location.lat

\* The two parts of an input around its comma
CoordinateParts(s) == Split(s, ",")

\* C12: for every input "<lat>,<lon>" whose two parts parse as floats,
\* get_location_info returns a Location with country 'Custom', timezone
\* 'UTC', and lat and lon equal to the parsed values.
C12_CoordinatePair ==
  (/\ op = "get_location_info"
   /\ Len(CoordinateParts(arg[1])) = 2
   /\ IsFloatText(CoordinateParts(arg[1])[1])
   /\ IsFloatText(CoordinateParts(arg[1])[2])) =>
    /\ ret.country = "Custom"
    /\ ret.timezone = <<"U","T","C">>
    /\ ret.lat = FloatVal(CoordinateParts(arg[1])[1])
    /\ ret.lon = FloatVal(CoordinateParts(arg[1])[2])

\* "19.5,-70.2" has been resolved to the custom location at 19.5, -70.2.
C12_Witness ==
  /\ op = "get_location_info"
  /\ arg[1] = <<"1","9",".","5",",","-","7","0",".","2">>
  /\ ret.country = "Custom"
  /\ ret.lat = 195000
  /\ ret.lon = -702000

\* The catalog positions whose key passes one of the three tests of the
\* partial-match loop for input s (a key equal to the normalized input
\* passes the first), and those whose key contains the normalized input
Matching(s) ==
  {i \in DOMAIN coastal_cities :
     \/ Contains(coastal_cities[i].key, Normalize(s))
     \/ Contains(Normalize(s), DeleteChar(coastal_cities[i].key, "_"))
     \/ Contains(StrLower(s), ReplaceChar(coastal_cities[i].key, "_", " "))}
Containing(s) ==
  {i \in DOMAIN coastal_cities : Contains(coastal_cities[i].key, Normalize(s))}

\* Both, for every input of the model, evaluated once
MatchTable == {<<s, Matching(s), Containing(s)>> : s \in Inputs}
MatchingOf(s) == (CHOOSE p \in MatchTable : p[1] = s)[2]
ContainingOf(s) == (CHOOSE p \in MatchTable : p[1] = s)[3]

\* The first position of a set of catalog positions
FirstOf(positions) == CHOOSE i \in positions : \A j \in positions : i <= j

\* C21: the catalog is consulted before coordinate parsing and before
\* hashing: an input that matches a catalog key, exactly or by the substring
\* tests, gets a matching catalog entry even when it holds a comma, and the
\* hash-derived location is returned only when no key matches and the input
\* is no coordinate pair.
C21_CatalogFirst ==
  op = "get_location_info" =>
    /\ MatchingOf(arg[1]) # {} =>
         \E i \in MatchingOf(arg[1]) : ret = CityInfo(coastal_cities[i])
    /\ ret.country = "Coastal Region" =>
         (MatchingOf(arg[1]) = {} /\ ~ParsesAsPair(arg[1]))

\* 'miami,usa', an input with a comma, has been resolved to Miami.
C21_Witness ==
  /\ op = "get_location_info"
  /\ arg[1] = <<"m","i","a","m","i",",","u","s","a">>
  /\ ret.name = <<"M","i","a","m","i",","," ","U","S","A">>
  /\ ret.lat = 257617

\* C22: an input that matches no catalog key exactly but several by the
\* substring tests gets the entry of the first matching key in the
\* catalog's order; 'new' resolves to new_york, listed before new_orleans.
C22_FirstMatch ==
  (/\ op = "get_location_info"
   /\ Normalize(arg[1]) \notin CatalogKeys
   /\ Cardinality(MatchingOf(arg[1])) >= 2) =>
    /\ ret = CityInfo(coastal_cities[FirstOf(MatchingOf(arg[1]))])
    /\ arg[1] = <<"n","e","w">> => ret.name = <<"N","e","w"," ","Y","o","r","k",","," ","U","S","A">>

\* 'new', which is inside three keys, has been resolved to New York.
C22_Witness ==
  /\ op = "get_location_info"
  /\ arg[1] = <<"n","e","w">>
  /\ Cardinality(MatchingOf(arg[1])) = 3
  /\ ret.lat = 407128

\* C30: an input whose normalized form is inside some catalog key but equal
\* to none, the empty string included, gets the entry of the first such key
\* in catalog order (the empty string: miami, the first entry); it reaches
\* neither coordinate parsing nor the hash.
C30_InsideKey ==
  (/\ op = "get_location_info"
   /\ Normalize(arg[1]) \notin CatalogKeys
   /\ ContainingOf(arg[1]) # {}) =>
    /\ ret = CityInfo(coastal_cities[FirstOf(ContainingOf(arg[1]))])
    /\ ret.country \notin {"Coastal Region", "Custom"}
    /\ arg[1] = <<>> => ret = CityInfo(coastal_cities[1])

\* The empty string has been resolved to Miami.
C30_Witness ==
  /\ op = "get_location_info"
  /\ arg[1] = <<>>
  /\ Cardinality(ContainingOf(arg[1])) = Len(coastal_cities)
  /\ ret.name = <<"M","i","a","m","i",","," ","U","S","A">>

\* C26: an input with a comma that does not parse as exactly two floats
\* (a part that is no number, or more than two parts) and matches no catalog
\* key gets the hash-derived location (country 'Coastal Region'); nothing
\* is raised and no 'Custom' location is returned.
C26_ParseFailureFallsThrough ==
  (/\ op = "get_location_info"
   /\ Contains(arg[1], <<",">>)
   /\ MatchingOf(arg[1]) = {}
   /\ \/ Len(CoordinateParts(arg[1])) # 2
      \/ \E i \in 1..2 : ~IsFloatText(CoordinateParts(arg[1])[i])) =>
    /\ ~IsRaise(ret)
    /\ ret.country = "Coastal Region"
    /\ ret = generate_unknown_city_data(arg[1])

\* '1,2,3', three numbers, has been resolved by the hash.
C26_Witness ==
  /\ op = "get_location_info"
  /\ arg[1] = <<"1",",","2",",","3">>
  /\ Len(CoordinateParts(arg[1])) = 3
  /\ ret.country = "Coastal Region"

\* The offset of a longitude: lon / 15 truncated toward zero
IsOffsetOf(o, lon) ==
  /\ Abs(o) * 15 * Scale <= Abs(lon)
  /\ Abs(lon) < (Abs(o) + 1) * 15 * Scale
  /\ o > 0 => lon > 0
  /\ o < 0 => lon < 0

\* C23: a location made by _generate_unknown_city_data has its latitude
\* within [-90, 90] and its longitude within [-180, 180], more precisely
\* |lat| <= 60 and |lon| <= 150, and its timezone is UTC followed by the
\* signed integer lon / 15 truncated toward zero, an offset in -10..10.
C23_DerivedRanges ==
  (op = "get_location_info" /\ ret.country = "Coastal Region") =>
    /\ Abs(ret.lat) <= 60 * Scale
    /\ Abs(ret.lon) <= 150 * Scale
    /\ \E o \in -10..10 :
         /\ IsOffsetOf(o, ret.lon)
         /\ ret.timezone = <<"U","T","C">> \o (IF o < 0 THEN <<"-">> ELSE <<"+">>)
                                           \o NatStr(Abs(o))

\* A derived location whose latitude was pulled away from the pole (it is
\* no whole number of degrees) has been returned.
C23_Witness ==
  /\ op = "get_location_info"
  /\ ret.country = "Coastal Region"
  /\ ret.lat % Scale # 0
  /\ Abs(ret.lat) <= 54 * Scale

\* C20: whenever the normalized input contains a catalog key as a
\* substring (a longer phrase around 'new_york', typed with spaces or with
\* hyphens), get_location_info returns a catalog entry, not a hash-derived
\* or coordinate location.
C20_KeyInsideInput ==
  (/\ op = "get_location_info"
   /\ \E city_key \in CatalogKeys : Contains(Normalize(arg[1]), city_key)) =>
    /\ ret.country \notin {"Coastal Region", "Custom"}
    /\ \E i \in DOMAIN coastal_cities : ret = CityInfo(coastal_cities[i])

---------------------------------------------------------------------------
(* Properties of the aggregation, under SpecData *)

\* C1: for every combination of provider outcomes, the dataset returned by
\* get_comprehensive_data has a non-null weather, tide and marine observation:
\* a failed provider is replaced by its fallback, never by null.
C1_ObservationsNonNull ==
  op = "get_comprehensive_data" =>
    /\ ret.weather # Null
    /\ ret.tide # Null
    /\ ret.marine # Null

\* C2: for each of weather, tide and marine, the provenance entry is
\* 'fallback' exactly when the observation came from the fallback generator,
\* and the provider's label exactly when it came from the provider.
C2_ProvenanceExact ==
  op = "get_comprehensive_data" =>
    \A p \in {<<"weather", "openweathermap_real">>, <<"tide", "noaa_real">>,
              <<"marine", "stormglass_real">>} :
      LET obs == ret[p[1]]
          tag == ret.data_sources[p[1]]
      IN /\ (tag = "fallback") <=> (Truthy(obs) /\ obs.source = "fallback")
         /\ (tag = p[2]) <=> (Truthy(obs) /\ obs.source = p[2])

\* C8: get_comprehensive_data propagates no exception; when something raises
\* on its normal path, the outer handler returns a dataset whose location,
\* weather, tide, marine, timestamp and data_sources are populated and whose
\* provenance entries are all 'fallback'.
C8_OuterHandler ==
  op = "get_comprehensive_data" =>
    /\ ~IsRaise(ret)
    /\ IsRaise(get_comprehensive_data_try(arg[1], arg[2])) =>
         /\ {"location", "weather", "tide", "marine", "timestamp", "data_sources"}
              \subseteq DOMAIN ret
         /\ Truthy(ret.location) /\ Truthy(ret.weather)
         /\ Truthy(ret.tide) /\ Truthy(ret.marine)
         /\ ret.timestamp = "isoformat"
         /\ \A s \in DOMAIN ret.data_sources : ret.data_sources[s] = "fallback"

\* The normal path raised and the outer handler answered.
C8_Witness ==
  /\ op = "get_comprehensive_data"
  /\ IsRaise(get_comprehensive_data_try(arg[1], arg[2]))
  /\ Truthy(ret.weather)
  /\ ret.data_sources.marine = "fallback"

\* C15: for every input, the 'location' of the dataset returned by
\* get_comprehensive_data equals get_location_info(input), on the normal
\* path and on the outer handler's path alike; so 'mumbai' yields country
\* 'India'.
C15_LocationOfDataset ==
  op = "get_comprehensive_data" =>
    /\ ret.location = LocationOf(arg[1])
    /\ arg[1] = <<"m","u","m","b","a","i">> => ret.location.country = "India"

\* The outer handler has answered for an unknown name with the location
\* derived from its hash.
C15_Witness ==
  /\ op = "get_comprehensive_data"
  /\ IsRaise(get_comprehensive_data_try(arg[1], arg[2]))
  /\ arg[1] = <<"a","t","l","a","n","t","i","s">>
  /\ ret.location.country = "Coastal Region"
  /\ ret.location = generate_unknown_city_data(arg[1])

\* The field names of an observation
Shape(observation) == DOMAIN observation

\* C16: for each source, the observation built from a real-provider response
\* has exactly the field names of the fallback observation for that source,
\* so a consumer cannot tell the origin from the shape.
C16_SameShape ==
  op = "get_comprehensive_data" =>
    /\ Truthy(ret.weather) =>
         Shape(ret.weather)
           = Shape(get_fallback_weather_data(ret.location.name, ret.location, arg[2].u))
    /\ Truthy(ret.tide) =>
         Shape(ret.tide)
           = Shape(get_fallback_tide_data(ret.location.name, ret.location, arg[2].u, arg[2].k))
    /\ Truthy(ret.marine) =>
         Shape(ret.marine)
           = Shape(get_fallback_marine_data(ret.location.name, ret.location, arg[2].u, arg[2].k))

\* C19: the dataset returned by get_comprehensive_data holds an observation
\* of each of the four sources, weather, tide, marine and pollution, which
\* the route hands to the alert deriver.
C19_FourObservations ==
  op = "get_comprehensive_data" =>
    \A s \in {"pollution", "marine", "tide", "weather"} :
      s \in DOMAIN ret /\ Truthy(ret[s])

\* C29: in the marine observation of every dataset get_comprehensive_data
\* returns, from the provider or the fallback, sea_condition is the one the
\* thresholds of get_current_conditions give for its wave_height: calm below
\* 0.5, slight below 1.0, moderate below 2.0, rough below 3.0, else
\* very_rough.
C29_SeaConditionOfWaveHeight ==
  (op = "get_comprehensive_data" /\ Truthy(ret.marine)) =>
    ret.marine.sea_condition = sea_condition_of(ret.marine.wave_height)

---------------------------------------------------------------------------
(* Properties of the source adapters, under SpecAdapters *)

AdapterOps == {"get_weather_data", "get_tide_data", "get_ocean_data", "get_pollution_data"}

\* The external call of an adapter failed: the credential is absent, the
\* request raised, the status is not 200, or the payload lacks a field.
ExternalFailure(e) ==
  ~e.key \/ e.http \in {"request_error", "bad_status", "missing_field"}

\* C7: every adapter call with a string location returns a non-null
\* observation and raises nothing, whatever the external call ends in; when
\* the credential is absent, the request raises, the status is not 200 or the
\* payload lacks expected fields, the observation is the simulated one
\* (source 'realistic_simulation').
C7_AdaptersTotal ==
  op \in AdapterOps =>
    /\ ~IsRaise(ret)
    /\ Truthy(ret)
    /\ ExternalFailure(arg[2]) => ret.source = "realistic_simulation"

\* An adapter whose request raised has answered with the simulation.
C7_Witness ==
  /\ op = "get_weather_data"
  /\ arg[2].key
  /\ arg[2].http = "request_error"
  /\ ret.source = "realistic_simulation"

\* The call that is pending at another place, with another random draw
Elsewhere(e) == [e EXCEPT !.u = MaxDraw - e.u, !.k = (e.k + 1) % 4]

\* C17: the simulated tide height of _generate_realistic_tide lies within
\* [base, base + amplitude] = [1.8, 3.0] at every hour 0..23 and is a
\* function of the UTC hour alone: another location and another random
\* draw at the same hour give the same height.
C17_TideHeightByHour ==
  (op = "get_tide_data" /\ ret.source = "realistic_simulation") =>
    /\ (18 * Scale) \div 10 <= ret.tide_height
    /\ ret.tide_height <= 3 * Scale
    /\ \A s \in DataInputs :
         ret.tide_height = generate_realistic_tide(LocationOf(s), Elsewhere(arg[2])).tide_height

\* The simulated tide of hour 3, nine hours before its peak, has been
\* returned for a location without a station.
C17_Witness ==
  /\ op = "get_tide_data"
  /\ arg[1] = <<"a","t","l","a","n","t","i","s">>
  /\ arg[2].hour = 3
  /\ ret.source = "realistic_simulation"
  /\ ret.tide_height = (265 * Scale) \div 100

\* The place a simulated tide was made for
PlaceOf(tide) ==
  [coordinates |-> tide.location, name |-> tide.city_name,
   country |-> tide.country, timezone |-> tide.timezone]

\* The simulated tide height of the pending call, had it been made at hour h
TideAt(h) == generate_realistic_tide(PlaceOf(ret), [arg[2] EXCEPT !.hour = h]).tide_height

\* C24 as stated: the simulated tide height is largest at hours 6 and 18,
\* height(h) <= height(6) = height(18) for every hour h in 0..23.
C24_AsStated ==
  (op = "get_tide_data" /\ ret.source = "realistic_simulation") =>
    /\ TideAt(6) = TideAt(18)
    /\ ret.tide_height <= TideAt(6)
    /\ \A h \in Hours : TideAt(h) <= TideAt(6)

\* C24: the simulated tide height is smallest at hours 6 and 18 and largest
\* at hours 0 and 12: height(6) = height(18) <= height(h) <= height(0) =
\* height(12) for every hour h in 0..23, and it is above height(6) at every
\* other hour.
C24_LowestAtSixAndEighteen ==
  (op = "get_tide_data" /\ ret.source = "realistic_simulation") =>
    /\ ret.tide_height = TideAt(arg[2].hour)
    /\ TideAt(6) = TideAt(18)
    /\ TideAt(0) = TideAt(12)
    /\ TideAt(6) <= ret.tide_height
    /\ ret.tide_height <= TideAt(12)
    /\ arg[2].hour \notin {6, 18} => TideAt(6) < ret.tide_height
    /\ \A h \in Hours : TideAt(6) <= TideAt(h) /\ TideAt(h) <= TideAt(0)

\* The simulated tide of hour 12 has been returned: 3.0, above the 1.8 of
\* hours 6 and 18.
C24_Witness ==
  /\ op = "get_tide_data"
  /\ arg[2].hour = 12
  /\ ret.source = "realistic_simulation"
  /\ ret.tide_height = 3 * Scale
  /\ TideAt(6) = (18 * Scale) \div 10

\* The centre and the spread of the temperature band of a latitude
BandOf(lat) ==
  IF Abs(lat) < (235 * Scale) \div 10 THEN [centre |-> 28 * Scale, spread |-> 2 * Scale]
  ELSE IF Abs(lat) < 45 * Scale THEN [centre |-> 18 * Scale, spread |-> 3 * Scale]
  ELSE [centre |-> 8 * Scale, spread |-> 4 * Scale]

\* Temperature t lies in the band around centre + offset
InBand(t, band, offset) ==
  /\ band.centre + offset - band.spread <= t
  /\ t <= band.centre + offset + band.spread

\* C18: in _generate_realistic_weather the temperature lies in the band of
\* the latitude (tropical 28+-2 for |lat| < 23.5, temperate 18+-3 for
\* |lat| < 45, else polar 8+-4) shifted by +6 exactly in the hours 6..18 and
\* by -4 otherwise; so at latitude 0 it lies in 32..36 at hour 12 and in
\* 22..26 at hour 0.
C18_TemperatureBand ==
  (op = "get_weather_data" /\ ret.source = "realistic_simulation") =>
    /\ InBand(ret.temperature, BandOf(LocationOf(arg[1]).lat),
              IF arg[2].hour \in 6..18 THEN 6 * Scale ELSE -4 * Scale)
    /\ (LocationOf(arg[1]).lat = 0 /\ arg[2].hour = 12) =>
         (32 * Scale <= ret.temperature /\ ret.temperature <= 36 * Scale)
    /\ (LocationOf(arg[1]).lat = 0 /\ arg[2].hour = 0) =>
         (22 * Scale <= ret.temperature /\ ret.temperature <= 26 * Scale)

\* The simulated weather of latitude 0 at hour 12 has been returned, at the
\* lower end of the tropical daytime band.
C18_Witness ==
  /\ op = "get_weather_data"
  /\ arg[1] = <<"0",",","0">>
  /\ arg[2].hour = 12
  /\ ret.source = "realistic_simulation"
  /\ ret.temperature = 32 * Scale

---------------------------------------------------------------------------
(* Properties of GET /api/data/{location}, under SpecIngest *)

\* C3: for every location, GET /api/data/{location} answers with a success
\* payload that carries the dataset and alerts_generated equal to the number
\* of alerts derived; it does not end in an error response when aggregation
\* and derivation succeeded.
C3_DataRouteSucceeds ==
  op = "get_data_for_location" =>
    /\ ret.status_code = 200
    /\ ret.body.status = "success"
    /\ ret.body.data = get_comprehensive_data(arg[1], arg[2])
    /\ ret.body.alerts_generated
         = Len(route_alerts(get_comprehensive_data(arg[1], arg[2]), arg[3]))

\* C27: when GET /api/data/{location} answers with an error, the request
\* has committed no weather row and no tide row: a failed request leaves the
\* two tables as they were.
C27_FailedRequestStoresNothing ==
  [][(op' = "get_data_for_location" /\ ret'.status_code # 200) =>
       (weather_rows' = weather_rows /\ tide_rows' = tide_rows)]_vars

---------------------------------------------------------------------------
(* Properties of the alert derivation, under SpecDerive *)

\* C13: any two alerts created by _create_alert have different ids, two
\* alerts of one generate_alerts_from_data call included.
C13_AlertIdsUnique ==
  op = "generate_alerts_from_data" =>
    \A i, j \in DOMAIN ret : i # j => ret[i].id # ret[j].id

\* The classifier's results for the call that is pending
ThreatsOf(location, e, a) ==
  detect_threats(
    combined_data_of(DictGet(DatasetOf(location, e), "weather"),
                     DictGet(DatasetOf(location, e), "tide"), Null, Null), a)

\* Alert `alert` is made of classifier result `threat`
MadeOf(alert, threat, triggered_by) ==
  /\ alert.alert_type = threat.type
  /\ alert.severity = threat.severity
  /\ alert.location = threat.location
  /\ alert.description = threat.description
  /\ alert.is_active = TRUE
  /\ alert.triggered_by = triggered_by

\* C14, as stated: for classifier results r1..rn, generate_alerts_from_data
\* returns n or n+1 alerts whose first n correspond to r1..rn in order, each
\* copying the result's type, severity, location and description, with
\* is_active true and triggered_by "classifier".
C14_AsStated ==
  op = "generate_alerts_from_data" =>
    /\ Len(ret) \in {arg[3].n, arg[3].n + 1}
    /\ \A i \in 1..arg[3].n :
         MadeOf(ret[i], ThreatsOf(arg[1], arg[2], arg[3])[i], "classifier")

\* C14, amended: the same correspondence, in order, with is_active true and
\* triggered_by "smart_ml", the tag the service writes; the list holds n
\* alerts, or n+1 when the demonstration alert was appended.
C14_AlertsOfResults ==
  op = "generate_alerts_from_data" =>
    /\ Len(ret) = arg[3].n + (IF arg[3].demo THEN 1 ELSE 0)
    /\ \A i \in 1..arg[3].n :
         MadeOf(ret[i], ThreatsOf(arg[1], arg[2], arg[3])[i], "smart_ml")

\* Two different classifier results and the demonstration alert have been
\* turned into three alerts.
C14_Witness ==
  /\ op = "generate_alerts_from_data"
  /\ arg[3].n = 2
  /\ Len(ret) = 3
  /\ ret[1].alert_type = "high_wind"
  /\ ret[2].alert_type = "high_tide"
  /\ ret[1].triggered_by = "smart_ml"
  /\ ret[3].triggered_by = "system_monitoring"

\* The providers failing where those of e answer, and answering where they fail
Opposite(e) ==
  [e EXCEPT !.weather = IF e.weather = "ok" THEN "request_error" ELSE "ok",
            !.tide = IF e.tide = "ok_number" THEN "request_error" ELSE "ok_number"]

\* C25: generate_alerts_from_data adds at most one alert to those of the
\* classifier results; the added alert has alert_type 'flooding_risk', a
\* severity of low or medium, triggered_by 'system_monitoring' and is_active
\* true; whether it is added depends on the random draw alone, not on the
\* weather, tide, ocean or pollution data: the same draws give as many alerts
\* for no data at all and for the dataset of another place whose providers
\* fail where those of the call answered.
C25_OneExtraAlert ==
  op = "generate_alerts_from_data" =>
    /\ Len(ret) \in {arg[3].n, arg[3].n + 1}
    /\ Len(ret) = arg[3].n + 1 <=> arg[3].demo
    /\ Len(ret) = arg[3].n + 1 =>
         /\ ret[Len(ret)].alert_type = "flooding_risk"
         /\ ret[Len(ret)].severity \in {"low", "medium"}
         /\ ret[Len(ret)].triggered_by = "system_monitoring"
         /\ ret[Len(ret)].is_active = TRUE
    /\ \A i \in 1..arg[3].n : ret[i].triggered_by # "system_monitoring"
    /\ Len(generate_alerts_from_data(Null, Null, Null, Null, arg[3])) = Len(ret)
    /\ \A location \in RouteInputs \ {arg[1]} :
         Len(route_alerts(DatasetOf(location, Opposite(arg[2])), arg[3]))
           = Len(ret)

\* The demonstration alert, of severity medium, has been added to two
\* alerts of classifier results.
C25_Witness ==
  /\ op = "generate_alerts_from_data"
  /\ arg[3].n = 2
  /\ arg[3].k = 1
  /\ Len(ret) = 3
  /\ ret[3].alert_type = "flooding_risk"
  /\ ret[3].severity = "medium"

---------------------------------------------------------------------------
(* Properties of the alert listing, under SpecAlerts *)

\* C28: after any sequence of generate_alerts_from_data, deactivate_alert and
\* get_active_alerts calls, get_active_alerts returns the same two alerts,
\* alert_20250830_001 and alert_20250830_002, both with is_active true: no
\* operation of the service changes the listing, and no alert made by
\* generate_alerts_from_data (tagged smart_ml_alert_service only by the
\* samples, system_monitoring only by the demonstration alert) is in it.
C28_ListingFixed ==
  op = "get_active_alerts" =>
    /\ Len(ret) = 2
    /\ ret[1].id = "alert_20250830_001"
    /\ ret[2].id = "alert_20250830_002"
    /\ ret[1].alert_type = "high_wind" /\ ret[1].severity = "medium"
    /\ ret[2].alert_type = "high_tide" /\ ret[2].severity = "low"
    /\ \A i \in DOMAIN ret :
         /\ ret[i].is_active = TRUE
         /\ ret[i].triggered_by # "system_monitoring"
         /\ ret[i].location = "19.0760,72.8777"

\* A generate_alerts_from_data call has returned an alert, deactivate_alert
\* has returned True for both sample ids, and the listing is being returned
\* with both.
C28_Witness ==
  /\ op = "get_active_alerts"
  /\ generated
  /\ {"alert_20250830_001", "alert_20250830_002"} \subseteq deactivated
  /\ Len(ret) = 2
  /\ ret[1].is_active /\ ret[2].is_active

---------------------------------------------------------------------------
(* Properties of the alert service and the report routes, under Spec *)

\* The ids of the alerts the registry holds
RegistryIds == {get_active_alerts[i].id : i \in DOMAIN get_active_alerts}

\* C4: deactivate_alert(id) returns false for every id that is not the id of
\* an alert in the registry, and DELETE /api/alerts/{id} then answers
\* not-found.
C4_UnknownIdRefused ==
  /\ (op = "deactivate_alert" /\ arg[1] \notin RegistryIds) => ret = FALSE
  /\ (op = "deactivate_alert_route" /\ arg[1] \notin RegistryIds) => ret.status_code = 404

\* C5: once deactivate_alert(id) has returned true, no later listing of the
\* active alerts, by the service or by GET /api/alerts, holds that id.
C5_DeactivatedExcluded ==
  /\ op = "get_active_alerts" =>
       \A i \in DOMAIN ret : ret[i].id \notin deactivated
  /\ (op = "get_alerts" /\ ret.status_code = 200) =>
       \A i \in DOMAIN ret.body.alerts : ret.body.alerts[i].id \notin deactivated

\* The routes that take an enumerated path parameter, with the enumeration
EnumRoutes ==
  [get_stakeholder_alert |-> StakeholderTypes,
   get_stakeholder_dashboard |-> StakeholderTypes,
   get_stakeholder_performance |-> StakeholderTypes,
   get_habitat_assessment |-> HabitatTypes,
   get_habitat_protection_report |-> HabitatTypes,
   get_economic_impact_analysis |-> EconomicSectors]

\* C6: a report route asked with a path parameter outside its enumeration
\* answers 404 not found, never 500 and never success.
C6_InvalidEnumNotFound ==
  (op \in DOMAIN EnumRoutes /\ arg[1] \notin EnumRoutes[op]) => ret.status_code = 404

=============================================================================
